---------------------------- MODULE Spec2Model ----------------------------
(***************************************************************************)
(* A model of mite (src/mite.c), a static site generator that turns        *)
(* markdown pages and C templates into a generated C program (site.c).     *)
(*                                                                         *)
(* The module holds one state machine per component of the program:        *)
(*   - SpecSite : the generated program's main() (the driver emitted by    *)
(*                second_stage_codegen) with find_template, INCLUDE and    *)
(*                CONTENT of the SECOND_STAGE runtime;                     *)
(*   - SpecMap  : the key/value store (site_map_set/get/has/equals);       *)
(*   - SpecTr   : the template transpiler (render_html_to_c);              *)
(*   - SpecEnc  : the literal encoder (sv_to_byte_array and                *)
(*                byte_array_to_c_code) and its decoding by the compiler;  *)
(*   - SpecInl  : parse_inline over one line;                              *)
(*   - SpecMd   : render_md_to_html over one document;                     *)
(*   - SpecTrim : sv_trim_empty_lines applied to its own result;           *)
(*   - SpecPipe : one page and one layout through render_all, the code     *)
(*                generation and the run of the generated program;         *)
(*   - SpecDisc : search_files over a site directory, and the files the    *)
(*                generated program writes;                                *)
(*   - SpecGen  : mite_generate and the exit of the process.               *)
(* Each specification starts the variables of the other components at an   *)
(* idle value and leaves them unchanged.                                   *)
(*                                                                         *)
(* Byte output is modelled as a sequence of chunks: every da_append_cstr / *)
(* da_append_many of a string literal of the source is one chunk holding   *)
(* that literal.                                                           *)
(***************************************************************************)
EXTENDS Integers, Sequences, FiniteSets, TLC

VARIABLES
  \* ---- the generated program (SECOND_STAGE) ----
  templates,   \* global.templates after construct_templates()
  pages,       \* global.pages after construct_global_state(), with each page's routine
  pc,          \* position of main(): "find", "call", "render", "done"
  pi,          \* index of the page block main() is executing
  st,          \* SiteTemplate* st of the current page block (0 = NULL)
  stack,       \* call stack of rendering routines
  out,         \* StringBuilder out of main()
  files,       \* what write_to_file has written, per page
  status,      \* "running", "exit0" (return 0), "exit1" (exit(1)), "crash"
  err,         \* stderr
  \* ---- the key/value store ----
  map,         \* SiteMap items[0..count)
  ret,         \* the last site_map_* call and what it returned
  \* ---- the template transpiler (render_html_to_c) ----
  tbuf,        \* the bytes the StringView source was made from
  source,      \* StringView source: [off, count] into tbuf
  html_mode,   \* bool html_mode
  tcode,       \* StringBuilder out: the instructions appended so far
  tpc,         \* "loop" while the while loop runs, "done" after it
  \* ---- the literal encoder run on its own ----
  enc_in,      \* the bytes of the span given to sv_to_byte_array
  enc_code,    \* what byte_array_to_c_code appended
  enc_out,     \* the bytes the emitted OUT_HTML appends when it runs
  enc_pc,      \* "start", "encoded", "ran"
  \* ---- parse_inline run on one line ----
  iline,       \* the NUL-terminated text the line pointer points into
  ip,          \* const char* p (a position of iline, from 1)
  iout,        \* r->out
  icursor,     \* r->cursor (0 while parse_inline has not set it)
  ikind,       \* which branch the last loop iteration took
  ipc,         \* "loop" while the while loop runs, "done" after it
  \* ---- render_md_to_html ----
  md,          \* md->items, the document with its terminating NUL
  cursor,      \* r.cursor (a position of md, from 1)
  in_paragraph,\* r.in_paragraph
  in_list,     \* r.in_list
  md_out,      \* out, the body
  md_out_fm,   \* out_fm, the front matter
  line_end,    \* line_end of the iteration under way
  mp,          \* p of the parse_inline call under way
  closing,     \* what the branch under way appends once parse_inline returns
  mpc,         \* "loop" at the loop condition, "inline" inside parse_inline,
               \* "line" after it, "done" at the return, or "fault" once the
               \* run has no defined outcome
  \* ---- sv_trim_empty_lines applied twice ----
  trim_buf,    \* the bytes the span points into
  trim_sv,     \* the span, as it is now
  trim_first,  \* the span after the first call
  trim_pc,      \* "start", "once", "twice"
  \* ---- one page and one layout through render_all and the generated program ----
  mt_file,          \* the bytes of the layout file
  mt_rendered_code, \* mite->rendered_code of the layout
  mp_rendered_code, \* mite_page->rendered_code
  mp_front_matter,  \* mite_page->front_matter
  pipe_pc,           \* "layout", "page", "body", "fm", "codegen", "run"
  \* ---- search_files, and the files the generated program writes ----
  root_dir,         \* the entries of the site directory, in readdir order
  di,               \* how many of them the outer loop has read
  mite_pages,       \* MitePages pages
  mite_templates,   \* MiteTemplates templates
  written,          \* the output paths written so far, each with its page
  disc_pc,           \* "search", "run", "done"
  \* ---- main from its call of mite_generate to the exit of the process ----
  gen_m,            \* MiteGenerator m: the arg_ flags and pages.count
  gen_env,          \* what the run finds outside: files, times, the command
  gen_result,       \* int result
  gen_fx,           \* what the run has done: rendered, site.c, site, served
  gen_log,          \* what it has printed
  exit_status,      \* the exit status of the process, -1 while it runs
  gen_pc            \* where the run is

siteVars == <<templates, pages, pc, pi, st, stack, out, files, status, err>>
mapVars  == <<map, ret>>
trVars   == <<tbuf, source, html_mode, tcode, tpc>>
encVars  == <<enc_in, enc_code, enc_out, enc_pc>>
inlVars  == <<iline, ip, iout, icursor, ikind, ipc>>
mdVars   == <<md, cursor, in_paragraph, in_list, md_out, md_out_fm, line_end, mp,
              closing, mpc>>
trimVars == <<trim_buf, trim_sv, trim_first, trim_pc>>
pipeVars == <<mt_file, mt_rendered_code, mp_rendered_code, mp_front_matter, pipe_pc>>
discVars == <<root_dir, di, mite_pages, mite_templates, written, disc_pc>>
genVars  == <<gen_m, gen_env, gen_result, gen_fx, gen_log, exit_status, gen_pc>>
vars     == <<siteVars, mapVars, trVars, encVars, inlVars, mdVars, trimVars, pipeVars, discVars, genVars>>

\* What each component leaves alone.
notSite == <<mapVars, trVars, encVars, inlVars, mdVars, trimVars, pipeVars, discVars, genVars>>
notMap  == <<siteVars, trVars, encVars, inlVars, mdVars, trimVars, pipeVars, discVars, genVars>>
notTr   == <<siteVars, mapVars, encVars, inlVars, mdVars, trimVars, pipeVars, discVars, genVars>>
notEnc  == <<siteVars, mapVars, trVars, inlVars, mdVars, trimVars, pipeVars, discVars, genVars>>
notInl  == <<siteVars, mapVars, trVars, encVars, mdVars, trimVars, pipeVars, discVars, genVars>>
notMd   == <<siteVars, mapVars, trVars, encVars, inlVars, trimVars, pipeVars, discVars, genVars>>
notTrim == <<siteVars, mapVars, trVars, encVars, inlVars, mdVars, pipeVars, discVars, genVars>>
notPipe == <<siteVars, mapVars, trVars, encVars, inlVars, mdVars, trimVars, discVars, genVars>>
notPipeSiteTrMd == <<mapVars, encVars, inlVars, trimVars, discVars, genVars>>
notDisc == <<siteVars, mapVars, trVars, encVars, inlVars, mdVars, trimVars, pipeVars, genVars>>
notGen  == <<siteVars, mapVars, trVars, encVars, inlVars, mdVars, trimVars, pipeVars, discVars>>

\* The null pointer, and the content of a file that was never written.
NULL == "NULL"
NotWritten == "NotWritten"

Min(S) == CHOOSE x \in S : \A y \in S : x <= y

(***************************************************************************)
(* Bounds                                                                  *)
(***************************************************************************)
MaxPages == 2

(***************************************************************************)
(* The generated program: registry lookup                                  *)
(***************************************************************************)

\* A find_template that reports the miss and returns NULL instead of exiting.
find_template_returns_null(ts, name) ==
  IF name = NULL THEN [st |-> 0, exit |-> FALSE, msg |-> <<>>]
  ELSE LET hits == {i \in 1..Len(ts) : ts[i].name # NULL /\ ts[i].name = name}
       IN  IF hits # {} THEN [st |-> Min(hits), exit |-> FALSE, msg |-> <<>>]
           ELSE [st |-> 0, exit |-> FALSE, msg |-> <<name>>]

\* find_template: NULL for a NULL name, the first template of that name,
\* and otherwise an error message and exit(1).
find_template(ts, name) ==
  IF name = NULL THEN [st |-> 0, exit |-> FALSE, msg |-> <<>>]
  ELSE LET hits == {i \in 1..Len(ts) : ts[i].name # NULL /\ ts[i].name = name}
       IN  IF hits # {} THEN [st |-> Min(hits), exit |-> FALSE, msg |-> <<>>]
           ELSE [st |-> 0, exit |-> TRUE, msg |-> <<name>>]

(***************************************************************************)
(* Sites the generated program is built for.  A routine is a sequence of   *)
(* instructions: OUT_HTML of a literal, CONTENT(), INCLUDE(name).          *)
(***************************************************************************)
Lit(s)     == [op |-> "OUT_HTML", arg |-> s]
Content    == [op |-> "CONTENT", arg |-> NULL]
Include(n) == [op |-> "INCLUDE", arg |-> n]

TDefault == [name |-> "default", is_include |-> FALSE,
             code |-> <<Lit("<html>"), Content, Lit("</html>")>>]
TPost    == [name |-> "post", is_include |-> FALSE,
             code |-> <<Include("head"), Content, Include("footer")>>]
THead    == [name |-> "head", is_include |-> TRUE,
             code |-> <<Lit("<head>")>>]
TFooter  == [name |-> "footer", is_include |-> TRUE,
             code |-> <<Lit("<footer>"), Include("default")>>]

TemplateSets ==
  << <<TDefault, TPost, THead, TFooter>>,
     <<TPost, THead, TFooter>>,
     <<TDefault, TPost, TFooter>>,
     <<THead, TDefault>>,
     <<>>,
     <<TFooter, TPost, THead, TDefault>> >>

Layouts == {"default", "post", "head", NULL}
Bodies  == {<<Lit("A")>>, <<Lit("B"), Include("head"), Lit("C")>>}
PageSet == [layout : Layouts, code : Bodies]

RECURSIVE SeqsUpTo(_, _)
SeqsUpTo(S, n) ==
  IF n = 0 THEN {<<>>}
  ELSE LET shorter == SeqsUpTo(S, n - 1)
       IN  shorter \cup {Append(s, x) : s \in {t \in shorter : Len(t) = n - 1}, x \in S}

Frame(kind, idx, cb) == [kind |-> kind, idx |-> idx, ip |-> 1, cb |-> cb]

CodeOf(f) == IF f.kind = "template" THEN templates[f.idx].code ELSE pages[f.idx].code

Top == stack[Len(stack)]
Pop == SubSeq(stack, 1, Len(stack) - 1)
Advance == [stack EXCEPT ![Len(stack)].ip = @ + 1]

InitSiteIdle ==
  /\ templates = <<>> /\ pages = <<>> /\ pc = "idle" /\ pi = 0 /\ st = 0
  /\ stack = <<>> /\ out = <<>> /\ files = <<>> /\ status = "idle" /\ err = <<>>

\* main() after construct_global_state() and construct_templates().
InitSite ==
  /\ \E k \in 1..Len(TemplateSets) : templates = TemplateSets[k]
  /\ pages \in SeqsUpTo(PageSet, MaxPages) \ {<<>>}
  /\ pc = "find" /\ pi = 1 /\ st = 0
  /\ stack = <<>> /\ out = <<>>
  /\ files = [i \in 1..Len(pages) |-> NotWritten]
  /\ status = "running" /\ err = <<>>

\* SiteTemplate* st = find_template(&global.templates, page->layout);
DriverFindTemplate ==
  /\ status = "running" /\ pc = "find" /\ pi <= Len(pages)
  /\ LET r == find_template(templates, pages[pi].layout)
     IN  /\ err' = err \o r.msg
         /\ IF r.exit
            THEN status' = "exit1" /\ UNCHANGED <<st, pc>>
            ELSE st' = r.st /\ pc' = "call" /\ UNCHANGED status
  /\ UNCHANGED <<templates, pages, pi, stack, out, files, notSite>>

\* if (st) st->function(&out, page, render_X); else render_X(&out, page);
DriverCall ==
  /\ status = "running" /\ pc = "call"
  /\ stack' = IF st # 0 THEN <<Frame("template", st, pi)>>
                        ELSE <<Frame("page", pi, 0)>>
  /\ pc' = "render"
  /\ UNCHANGED <<templates, pages, pi, st, out, files, status, err, notSite>>

Running == status = "running" /\ pc = "render" /\ stack # <<>>
AtOp(op) == Running /\ Top.ip <= Len(CodeOf(Top)) /\ CodeOf(Top)[Top.ip].op = op

\* OUT_HTML(buf, size): da_append_many(out, buf, size)
ExecOutHtml ==
  /\ AtOp("OUT_HTML")
  /\ out' = Append(out, CodeOf(Top)[Top.ip].arg)
  /\ stack' = Advance
  /\ UNCHANGED <<templates, pages, pc, pi, st, files, status, err, notSite>>

\* A CONTENT() that expands to nothing.
ExecContent_skips ==
  /\ AtOp("CONTENT")
  /\ stack' = Advance
  /\ UNCHANGED <<templates, pages, pc, pi, st, out, files, status, err, notSite>>

\* CONTENT(): render_content_func(out, page).  A page routine declares its own
\* render_content_func = NULL, and calling through NULL ends the program.
ExecContent ==
  /\ AtOp("CONTENT")
  /\ IF Top.cb = 0
     THEN status' = "crash" /\ UNCHANGED stack
     ELSE stack' = Append(Advance, Frame("page", Top.cb, 0)) /\ UNCHANGED status
  /\ UNCHANGED <<templates, pages, pc, pi, st, out, files, err, notSite>>

\* INCLUDE(mitename): find_template, then run it only if st && st->is_include.
ExecInclude ==
  /\ AtOp("INCLUDE")
  /\ LET r == find_template(templates, CodeOf(Top)[Top.ip].arg)
     IN  /\ err' = err \o r.msg
         /\ IF r.exit
            THEN status' = "exit1" /\ UNCHANGED stack
            ELSE /\ UNCHANGED status
                 /\ stack' = IF r.st # 0 /\ templates[r.st].is_include
                             THEN Append(Advance, Frame("template", r.st, Top.cb))
                             ELSE Advance
  /\ UNCHANGED <<templates, pages, pc, pi, st, out, files, notSite>>

\* The closing brace of a rendering routine.
ExecReturn ==
  /\ Running /\ Top.ip > Len(CodeOf(Top))
  /\ stack' = Pop
  /\ UNCHANGED <<templates, pages, pc, pi, st, out, files, status, err, notSite>>

\* A driver that writes the buffer and does not empty it.
DriverWrite_keeps_buffer ==
  /\ status = "running" /\ pc = "render" /\ stack = <<>>
  /\ files' = [files EXCEPT ![pi] = out]
  /\ pi' = pi + 1
  /\ pc' = "find"
  /\ UNCHANGED <<templates, pages, st, stack, out, status, err, notSite>>

\* write_to_file(page->output, &out); out.count = 0;
DriverWrite ==
  /\ status = "running" /\ pc = "render" /\ stack = <<>>
  /\ files' = [files EXCEPT ![pi] = out]
  /\ out' = <<>>
  /\ pi' = pi + 1
  /\ pc' = "find"
  /\ UNCHANGED <<templates, pages, st, stack, status, err, notSite>>

\* free(out.items); return 0;
DriverReturn ==
  /\ status = "running" /\ pc = "find" /\ pi > Len(pages)
  /\ status' = "exit0" /\ pc' = "done"
  /\ UNCHANGED <<templates, pages, pi, st, stack, out, files, err, notSite>>

InitMapIdle == map = <<>> /\ ret = [op |-> "idle"]

InitTrIdle ==
  /\ tbuf = <<>> /\ source = [off |-> 0, count |-> 0] /\ html_mode = TRUE
  /\ tcode = <<>> /\ tpc = "idle"

InitEncIdle == enc_in = <<>> /\ enc_code = <<>> /\ enc_out = <<>> /\ enc_pc = "idle"

InitInlIdle ==
  /\ iline = <<>> /\ ip = 0 /\ iout = <<>> /\ icursor = 0 /\ ikind = "idle"
  /\ ipc = "idle"

InitMdIdle ==
  /\ md = <<>> /\ cursor = 0 /\ in_paragraph = FALSE /\ in_list = FALSE
  /\ md_out = <<>> /\ md_out_fm = <<>> /\ line_end = 0 /\ mp = 0
  /\ closing = <<>> /\ mpc = "idle"

InitGenIdle ==
  /\ gen_m = <<>> /\ gen_env = <<>> /\ gen_result = 0 /\ gen_fx = <<>>
  /\ gen_log = <<>> /\ exit_status = -1 /\ gen_pc = "idle"

InitDiscIdle ==
  /\ root_dir = <<>> /\ di = 0 /\ mite_pages = <<>> /\ mite_templates = <<>>
  /\ written = {} /\ disc_pc = "idle"

InitPipeIdle ==
  /\ mt_file = <<>> /\ mt_rendered_code = <<>> /\ mp_rendered_code = <<>>
  /\ mp_front_matter = <<>> /\ pipe_pc = "idle"

InitTrimIdle ==
  /\ trim_buf = <<>> /\ trim_sv = [off |-> 0, count |-> 0]
  /\ trim_first = [off |-> 0, count |-> 0]
  /\ trim_pc = "idle"

NextSite ==
  \/ DriverFindTemplate
  \/ DriverCall
  \/ ExecOutHtml
  \/ ExecContent
  \/ ExecInclude
  \/ ExecReturn
  \/ DriverWrite
  \/ DriverReturn

InitSiteSpec == InitGenIdle /\ InitDiscIdle /\ InitPipeIdle /\ InitTrimIdle /\ InitMdIdle /\ InitSite /\ InitMapIdle /\ InitTrIdle /\ InitEncIdle /\ InitInlIdle

SpecSite == InitSiteSpec /\ [][NextSite]_vars


(***************************************************************************)
(* The key/value store (SiteMap): page->data and global.data               *)
(***************************************************************************)
MaxMap == 3
Keys   == {"mathjax", "draft"}
Values == {"true", "false"}

Entry(k, v) == [key |-> k, value |-> v]

\* A lookup that keeps scanning and so answers with the last entry of the key.
RECURSIVE site_map_get_last_from(_, _, _)
site_map_get_last_from(m, key, i) ==
  IF i < 1 THEN NULL
  ELSE IF m[i].key = key THEN m[i].value
  ELSE site_map_get_last_from(m, key, i - 1)

site_map_get_last(m, key) == site_map_get_last_from(m, key, Len(m))

\* The loop of site_map_get from index i: the value of the first entry whose
\* key compares equal, NULL when the loop runs out.
RECURSIVE site_map_get_from(_, _, _)
site_map_get_from(m, key, i) ==
  IF i > Len(m) THEN NULL
  ELSE IF m[i].key = key THEN m[i].value
  ELSE site_map_get_from(m, key, i + 1)

site_map_get(m, key) == site_map_get_from(m, key, 1)

RECURSIVE site_map_has_from(_, _, _)
site_map_has_from(m, key, i) ==
  IF i > Len(m) THEN FALSE
  ELSE IF m[i].key = key THEN TRUE
  ELSE site_map_has_from(m, key, i + 1)

site_map_has(m, key) == site_map_has_from(m, key, 1)

RECURSIVE site_map_equals_from(_, _, _, _)
site_map_equals_from(m, key, value, i) ==
  IF i > Len(m) THEN FALSE
  ELSE IF m[i].key = key THEN m[i].value = value
  ELSE site_map_equals_from(m, key, value, i + 1)

site_map_equals(m, key, value) == site_map_equals_from(m, key, value, 1)

\* site_map_set: items[count] = {key, value}; count++ (the capacity doubles
\* when full, which moves no entry).
site_map_set(m, key, value) == Append(m, Entry(key, value))

InitMap == map = <<>> /\ ret = [op |-> "none", key |-> NULL, value |-> NULL, result |-> NULL]

MapSet ==
  /\ Len(map) < MaxMap
  /\ \E k \in Keys, v \in Values :
       /\ map' = site_map_set(map, k, v)
       /\ ret' = [op |-> "set", key |-> k, value |-> v, result |-> NULL]
  /\ UNCHANGED notMap

MapGet ==
  /\ \E k \in Keys :
       ret' = [op |-> "get", key |-> k, value |-> NULL, result |-> site_map_get(map, k)]
  /\ UNCHANGED <<map, notMap>>

MapHas ==
  /\ \E k \in Keys :
       ret' = [op |-> "has", key |-> k, value |-> NULL, result |-> site_map_has(map, k)]
  /\ UNCHANGED <<map, notMap>>

MapEquals ==
  /\ \E k \in Keys, v \in Values :
       ret' = [op |-> "equals", key |-> k, value |-> v,
               result |-> site_map_equals(map, k, v)]
  /\ UNCHANGED <<map, notMap>>

NextMap == MapSet \/ MapGet \/ MapHas \/ MapEquals

InitMapSpec == InitGenIdle /\ InitDiscIdle /\ InitPipeIdle /\ InitTrimIdle /\ InitMdIdle /\ InitMap /\ InitSiteIdle /\ InitTrIdle /\ InitEncIdle /\ InitInlIdle

SpecMap == InitMapSpec /\ [][NextMap]_vars

\* The indexes of the entries of key k.
EntriesOf(k) == {i \in 1..Len(map) : map[i].key = k}

\* What the last call returned is what the claim says of the store it ran on.
C4_Returns ==
  /\ ret.op = "get" =>
       ret.result = IF EntriesOf(ret.key) = {} THEN NULL
                    ELSE map[Min(EntriesOf(ret.key))].value
  /\ ret.op = "has" => (ret.result <=> EntriesOf(ret.key) # {})
  /\ ret.op = "equals" =>
       (ret.result <=> /\ EntriesOf(ret.key) # {}
                       /\ map[Min(EntriesOf(ret.key))].value = ret.value)

\* Every site_map_set appends exactly one entry and changes no earlier one;
\* nothing else changes the store.
C4_SetAppends ==
  IF ret'.op = "set" /\ map' # map
  THEN /\ Len(map') = Len(map) + 1
       /\ SubSeq(map', 1, Len(map)) = map
       /\ map'[Len(map')] = Entry(ret'.key, ret'.value)
  ELSE map' = map

\* C4: after any sequence of site_map_set calls, every set has appended one
\* entry (count + 1, earlier entries unchanged, duplicate keys all kept),
\* site_map_get returns the value of the earliest entry of the key or NULL,
\* site_map_has is true exactly when an entry of the key exists, and
\* site_map_equals compares against that same earliest entry.
C4_MapFirstMatch == []C4_Returns /\ [][C4_SetAppends]_vars

\* C4 witness: a key was set twice with different values and site_map_get
\* answered with the earlier one.
C4_Witness ==
  /\ ret.op = "get"
  /\ \E i, j \in EntriesOf(ret.key) :
       i < j /\ i = Min(EntriesOf(ret.key)) /\ map[i].value # map[j].value
             /\ ret.result = map[i].value

(***************************************************************************)
(* The template transpiler: StringViews, trimming, chop_until, the literal *)
(* encoder and render_html_to_c.  Bytes are integers 0..255.               *)
(***************************************************************************)
NUL == 0
TAB == 9
NL  == 10
CR  == 13
SP  == 32
LT  == 60
GT  == 62
QM  == 63

MaxTplParts == 5
MaxCode   == 6
MaxEncLen == 3

\* A StringView over buffer b: items = b + off, count.
View(off, count) == [off |-> off, count |-> count]
At(b, sv, i)     == b[sv.off + i + 1]
BytesOf(b, sv)   == SubSeq(b, sv.off + 1, sv.off + sv.count)

IsBlank(c) == c = SP \/ c = TAB
IsSpace(c) == c = SP \/ c = TAB \/ c = NL \/ c = CR

\* while (empty < sv.count && (items[empty] == ' ' || items[empty] == '\t')) empty++;
RECURSIVE skip_blanks(_, _, _)
skip_blanks(b, sv, empty) ==
  IF empty < sv.count /\ IsBlank(At(b, sv, empty))
  THEN skip_blanks(b, sv, empty + 1) ELSE empty

\* while (l < sv.count && (space, tab, newline or carriage return)) l++;
RECURSIVE skip_spaces(_, _, _)
skip_spaces(b, sv, l) ==
  IF l < sv.count /\ IsSpace(At(b, sv, l))
  THEN skip_spaces(b, sv, l + 1) ELSE l

\* while (r >= 0 && (space, tab, newline or carriage return)) r--;
RECURSIVE back_spaces(_, _, _)
back_spaces(b, sv, r) ==
  IF r >= 0 /\ IsSpace(At(b, sv, r))
  THEN back_spaces(b, sv, r - 1) ELSE r

sv_trim(b, input) ==
  LET l  == skip_spaces(b, input, 0)
      sv == View(input.off + l, input.count - l)
      r  == back_spaces(b, sv, sv.count - 1)
  IN  View(sv.off, r + 1)

\* A trim of literal spans that drops every leading space, tab and newline.
sv_trim_empty_lines_as_sv_trim(b, input) == sv_trim(b, input)

\* A trim of literal spans that takes one trailing space byte at most.
sv_trim_empty_lines_one_trailing(b, input) ==
  LET empty == skip_blanks(b, input, 0)
      sv == IF empty + 1 < input.count /\ At(b, input, empty + 1) = NL
            THEN View(input.off + empty, input.count - empty)
            ELSE input
  IN  IF sv.count > 0 /\ IsSpace(At(b, sv, sv.count - 1))
      THEN View(sv.off, sv.count - 1) ELSE sv

sv_trim_empty_lines(b, input) ==
  LET empty == skip_blanks(b, input, 0)
      sv == IF empty + 1 < input.count /\ At(b, input, empty + 1) = NL
            THEN View(input.off + empty, input.count - empty)
            ELSE input
      r  == back_spaces(b, sv, sv.count - 1)
  IN  View(sv.off, r + 1)

\* The inner for loop of chop_until: does delim stand at index i of input?
DelimAt(b, input, delim, i) ==
  Cardinality({d \in 0..(Len(delim) - 1) :
                 i + d < input.count /\ At(b, input, i + d) = delim[d + 1]})
    = Len(delim)

\* while (i < input->count) { ... if (equal == delim_count) break; ++i; }
RECURSIVE chop_scan(_, _, _, _)
chop_scan(b, input, delim, i) ==
  IF i < input.count /\ ~DelimAt(b, input, delim, i)
  THEN chop_scan(b, input, delim, i + 1) ELSE i

\* chop_until: the span before the delimiter (line) and the input advanced
\* past it (input).  An input shorter than the delimiter is not consumed.
chop_until(b, input, delim) ==
  IF input.count = 0 \/ Len(delim) = 0 \/ input.count < Len(delim)
  THEN [line |-> View(0, 0), input |-> input]
  ELSE LET i == chop_scan(b, input, delim, 0)
       IN  [line  |-> View(input.off, i),
            input |-> IF i = input.count
                      THEN View(input.off + input.count, 0)
                      ELSE View(input.off + i + Len(delim),
                                input.count - (i + Len(delim)))]

Digits == <<"0", "1", "2", "3", "4", "5", "6", "7", "8", "9">>
Lower  == <<"a", "b", "c", "d", "e", "f", "g", "h", "i", "j", "k", "l", "m",
            "n", "o", "p", "q", "r", "s", "t", "u", "v", "w", "x", "y", "z">>

\* A digit routine that forgets the -10: 'a' + n.
to_hex_char_no_offset(n) == IF n < 10 THEN Digits[n + 1] ELSE Lower[n + 1]

\* (n < 10) ? ('0' + n) : ('a' + n - 10)
to_hex_char(n) == IF n < 10 THEN Digits[n + 1] ELSE Lower[n - 10 + 1]

\* sv_to_byte_array from index i: four characters \xHH per byte, one count
\* per byte, stopping at the first NUL.
RECURSIVE sv_to_byte_array_from(_, _, _, _)
sv_to_byte_array_from(b, sv, i, ba) ==
  IF i >= sv.count THEN ba
  ELSE LET c == At(b, sv, i)
       IN  IF c = NUL THEN ba
           ELSE sv_to_byte_array_from(b, sv, i + 1,
                  [string |-> ba.string \o
                                <<"\\", "x", to_hex_char(c \div 16), to_hex_char(c % 16)>>,
                   count  |-> ba.count + 1])

sv_to_byte_array(b, sv) ==
  sv_to_byte_array_from(b, sv, 0, [string |-> <<>>, count |-> 0])

\* byte_array_to_c_code: nothing for an empty array or for the one byte \x0a,
\* otherwise OUT_HTML("<string>", <count>).
byte_array_to_c_code(ba, code) ==
  IF ba.count = 0 THEN code
  ELSE IF ba.count = 1 /\ Len(ba.string) = 4 /\ ba.string = <<"\\", "x", "0", "a">>
       THEN code
       ELSE Append(code, [op |-> "OUT_HTML", string |-> ba.string, size |-> ba.count,
                          text |-> <<>>])

\* sv_to_c_code: the span verbatim and a newline.
sv_to_c_code(b, sv, code) ==
  Append(code, [op |-> "CODE", string |-> <<>>, size |-> 0,
                text |-> BytesOf(b, sv) \o <<NL>>])

\* One iteration of the while loop of render_html_to_c.
render_html_to_c_iteration(b, src, mode, code) ==
  IF mode
  THEN LET c     == chop_until(b, src, <<LT, QM>>)
           token == sv_trim_empty_lines(b, c.line)
       IN  [source |-> c.input, html_mode |-> FALSE,
            code |-> byte_array_to_c_code(sv_to_byte_array(b, token), code)]
  ELSE LET c     == chop_until(b, src, <<QM, GT>>)
           token == sv_trim(b, c.line)
       IN  [source |-> c.input, html_mode |-> TRUE,
            code |-> sv_to_c_code(b, token, code)]

\* while (source.count && source.items[0])
LoopCond(b, src) == src.count # 0 /\ At(b, src, 0) # NUL

(***************************************************************************)
(* What the C compiler makes of an emitted literal: each \x escape takes   *)
(* all the hexadecimal digits that follow it.                              *)
(***************************************************************************)
HexDigits == <<"0", "1", "2", "3", "4", "5", "6", "7", "8", "9",
               "a", "b", "c", "d", "e", "f">>
IsHex(ch)  == \E k \in 1..16 : HexDigits[k] = ch
HexVal(ch) == (CHOOSE k \in 1..16 : HexDigits[k] = ch) - 1

RECURSIVE HexRun(_, _)
HexRun(str, k) == IF k <= Len(str) /\ IsHex(str[k]) THEN HexRun(str, k + 1) ELSE k

RECURSIVE HexNumber(_, _, _, _)
HexNumber(str, k, end, acc) ==
  IF k >= end THEN acc ELSE HexNumber(str, k + 1, end, acc * 16 + HexVal(str[k]))

\* The bytes of the string literal; -1 stands for a character that is not
\* part of an escape.
RECURSIVE CStringBytes(_, _)
CStringBytes(str, k) ==
  IF k > Len(str) THEN <<>>
  ELSE IF str[k] = "\\" /\ k < Len(str) /\ str[k + 1] = "x"
       THEN LET end == HexRun(str, k + 2)
            IN  <<HexNumber(str, k + 2, end, 0) % 256>> \o CStringBytes(str, end)
       ELSE <<-1>> \o CStringBytes(str, k + 1)

\* OUT_HTML(buf, size): the first size bytes of the literal.
OutHtmlBytes(instr) ==
  LET bytes == CStringBytes(instr.string, 1)
  IN  SubSeq(bytes, 1, IF instr.size < Len(bytes) THEN instr.size ELSE Len(bytes))

(***************************************************************************)
(* render_html_to_c as a state machine                                     *)
(***************************************************************************)
\* Buffers are made of up to MaxTplParts parts: single bytes and delimiters.
TplParts == {<<SP>>, <<NL>>, <<97>>, <<LT>>, <<LT, QM>>, <<QM, GT>>}

RECURSIVE Flatten(_)
Flatten(parts) == IF parts = <<>> THEN <<>> ELSE Head(parts) \o Flatten(Tail(parts))

TplContents == {Flatten(ps) : ps \in SeqsUpTo(TplParts, MaxTplParts)}

InitTr ==
  /\ \E content \in TplContents :
       \/ tbuf = content                               \* a template file
       \/ content # <<>> /\ tbuf = content \o <<NUL>>  \* a rendered buffer
  /\ source = View(0, Len(tbuf))
  /\ html_mode = TRUE
  /\ tcode = <<>>
  /\ tpc = "loop"

TrIterate(mode) ==
  /\ tpc = "loop" /\ LoopCond(tbuf, source) /\ html_mode = mode
  /\ Len(tcode) < MaxCode
  /\ LET n == render_html_to_c_iteration(tbuf, source, html_mode, tcode)
     IN  source' = n.source /\ html_mode' = n.html_mode /\ tcode' = n.code
  /\ UNCHANGED <<tbuf, tpc, notTr>>

TrHtml == TrIterate(TRUE)
TrCode == TrIterate(FALSE)

TrDone ==
  /\ tpc = "loop" /\ ~LoopCond(tbuf, source)
  /\ tpc' = "done"
  /\ UNCHANGED <<tbuf, source, html_mode, tcode, notTr>>

NextTr == TrHtml \/ TrCode \/ TrDone

InitTrSpec == InitGenIdle /\ InitDiscIdle /\ InitPipeIdle /\ InitTrimIdle /\ InitMdIdle /\ InitTr /\ InitSiteIdle /\ InitMapIdle /\ InitEncIdle /\ InitInlIdle

SpecTr == InitTrSpec /\ [][NextTr]_vars

(***************************************************************************)
(* Properties of render_html_to_c                                          *)
(***************************************************************************)
Max(S) == CHOOSE x \in S : \A y \in S : x >= y

\* The places (1-based) at or after from where the two bytes of d stand in c.
Occurrences(c, d, from) ==
  {i \in from..(Len(c) - 1) : c[i] = d[1] /\ c[i + 1] = d[2]}

\* The regions of c from position from on: a literal region (html) runs to
\* the next <? and a code region to the next ?>; closed says the delimiter
\* was found, so a closed literal region stands immediately before code.
RECURSIVE Regions(_, _, _)
Regions(c, from, html) ==
  IF from > Len(c) THEN <<>>
  ELSE LET occ == Occurrences(c, IF html THEN <<LT, QM>> ELSE <<QM, GT>>, from)
       IN  IF occ = {}
           THEN <<[html |-> html, bytes |-> SubSeq(c, from, Len(c)), closed |-> FALSE]>>
           ELSE <<[html |-> html, bytes |-> SubSeq(c, from, Min(occ) - 1), closed |-> TRUE]>>
                \o Regions(c, Min(occ) + 2, ~html)

IsHtmlRegion(r)  == r.html
IsOutHtml(instr) == instr.op = "OUT_HTML"

\* The byte strings the OUT_HTML instructions of a stream append, in order.
EmittedLiterals(code) ==
  LET lits == SelectSeq(code, IsOutHtml)
  IN  [k \in 1..Len(lits) |-> OutHtmlBytes(lits[k])]

\* The buffer without the terminator of a rendered buffer.
Unterminated(b) == IF b # <<>> /\ b[Len(b)] = NUL THEN SubSeq(b, 1, Len(b) - 1) ELSE b

NotLoneNewlineBeforeCode(r) == r.bytes # <<>> /\ ~(r.bytes = <<NL>> /\ r.closed)

\* C5 as claimed: when render_html_to_c has returned, the literals its
\* instruction stream writes are the literal regions of the buffer byte for
\* byte, in order, leaving out only a region that is exactly one newline
\* immediately before a code region.
C5_LiteralsByteForByte ==
  tpc = "done" =>
    LET regs == SelectSeq(SelectSeq(Regions(Unterminated(tbuf), 1, TRUE), IsHtmlRegion),
                          NotLoneNewlineBeforeCode)
    IN  EmittedLiterals(tcode) = [k \in 1..Len(regs) |-> regs[k].bytes]

\* What is left of a literal region R: without its trailing spaces, tabs,
\* newlines and carriage returns; without its leading spaces and tabs when
\* the byte after the first byte that is no space or tab is a newline; and
\* cut before a NUL.
Trimmed(R) ==
  LET lead  == Min({k \in 0..Len(R) : k = Len(R) \/ ~IsBlank(R[k + 1])})
      first == IF lead + 2 <= Len(R) /\ R[lead + 2] = NL THEN lead + 1 ELSE 1
      last  == Max({first - 1} \cup {k \in first..Len(R) : ~IsSpace(R[k])})
      kept  == SubSeq(R, first, last)
      nuls  == {k \in 1..Len(kept) : kept[k] = NUL}
  IN  IF nuls = {} THEN kept ELSE SubSeq(kept, 1, Min(nuls) - 1)

TrimmedRegion(r) == [r EXCEPT !.bytes = Trimmed(r.bytes)]
NotLoneNewline(r) == r.bytes # <<>> /\ r.bytes # <<NL>>

RECURSIVE MapTrimmed(_)
MapTrimmed(regs) ==
  IF regs = <<>> THEN <<>>
  ELSE <<TrimmedRegion(Head(regs))>> \o MapTrimmed(Tail(regs))

\* C5 as amended: when render_html_to_c has returned, the literals its
\* instruction stream writes are, in order, the literal regions of the
\* buffer (the terminator of a rendered buffer counted as a byte of the last
\* region) each trimmed as above, leaving out the regions of which nothing or
\* exactly one newline is left.
C5_LiteralsTrimmed ==
  tpc = "done" =>
    LET regs == SelectSeq(MapTrimmed(SelectSeq(Regions(tbuf, 1, TRUE), IsHtmlRegion)),
                          NotLoneNewline)
    IN  EmittedLiterals(tcode) = [k \in 1..Len(regs) |-> regs[k].bytes]

\* C5 witness: a buffer with a literal before and after a code region was
\* transpiled into two literals and the code between them, and the first
\* literal lost trailing white space.
C5_Witness ==
  /\ tpc = "done"
  /\ Len(tcode) = 3
  /\ tcode[1].op = "OUT_HTML" /\ tcode[2].op = "CODE" /\ tcode[3].op = "OUT_HTML"
  /\ Regions(tbuf, 1, TRUE)[1].bytes # OutHtmlBytes(tcode[1])

(***************************************************************************)
(* The literal encoder on its own: sv_to_byte_array, byte_array_to_c_code, *)
(* and the emitted OUT_HTML run by the generated program.                  *)
(***************************************************************************)
EncBytes == {NUL, NL, 97, 171, 255}

InitEnc ==
  /\ enc_in \in {<<c>> : c \in 0..255} \cup SeqsUpTo(EncBytes, MaxEncLen)
  /\ enc_code = <<>> /\ enc_out = <<>> /\ enc_pc = "start"

EncEncode ==
  /\ enc_pc = "start"
  /\ enc_code' = byte_array_to_c_code(
                   sv_to_byte_array(enc_in, View(0, Len(enc_in))), <<>>)
  /\ enc_pc' = "encoded"
  /\ UNCHANGED <<enc_in, enc_out, notEnc>>

EncRun ==
  /\ enc_pc = "encoded"
  /\ enc_out' = Flatten(EmittedLiterals(enc_code))
  /\ enc_pc' = "ran"
  /\ UNCHANGED <<enc_in, enc_code, notEnc>>

NextEnc == EncEncode \/ EncRun

InitEncSpec == InitGenIdle /\ InitDiscIdle /\ InitPipeIdle /\ InitTrimIdle /\ InitMdIdle /\ InitEnc /\ InitSiteIdle /\ InitMapIdle /\ InitTrIdle /\ InitInlIdle

SpecEnc == InitEncSpec /\ [][NextEnc]_vars

\* C6 as claimed: the emitted literal, decoded with its emitted count, is
\* the input, and the count is the input's length, for every byte sequence.
C6_RoundTripAllBytes ==
  enc_pc = "ran" =>
    /\ enc_out = enc_in
    /\ (enc_in # <<>> => Len(enc_code) = 1 /\ enc_code[1].size = Len(enc_in))

\* The bytes of the input before its first NUL (all of it when it has none).
BeforeNul(bytes) ==
  LET nuls == {k \in 1..Len(bytes) : bytes[k] = NUL}
  IN  IF nuls = {} THEN bytes ELSE SubSeq(bytes, 1, Min(nuls) - 1)

\* C6 as amended: the encoder encodes the bytes before the first NUL.  When
\* they are neither nothing nor exactly one newline, one OUT_HTML is emitted
\* whose count is their number and whose literal decodes to exactly them;
\* otherwise nothing is emitted.
C6_RoundTripBeforeNul ==
  enc_pc = "ran" =>
    LET P == BeforeNul(enc_in)
    IN  IF P = <<>> \/ P = <<NL>>
        THEN enc_code = <<>> /\ enc_out = <<>>
        ELSE /\ Len(enc_code) = 1
             /\ enc_code[1].size = Len(P)
             /\ Len(enc_code[1].string) = 4 * Len(P)
             /\ enc_out = P

\* C6 witness: a three-byte input with a newline and bytes outside ASCII
\* came back unchanged.
C6_Witness ==
  /\ enc_pc = "ran"
  /\ enc_in = <<NL, 171, 255>>
  /\ enc_out = enc_in

(***************************************************************************)
(* sv_trim_empty_lines applied to its own result                           *)
(***************************************************************************)
MaxTrimLen == 4

TrimBytes == {SP, TAB, NL, CR, 97}

InitTrim ==
  /\ trim_buf \in SeqsUpTo(TrimBytes, MaxTrimLen)
  /\ trim_sv = View(0, Len(trim_buf))
  /\ trim_first = View(0, 0)
  /\ trim_pc = "start"

\* html = sv_trim_empty_lines(html);
TrimOnce ==
  /\ trim_pc = "start"
  /\ trim_sv' = sv_trim_empty_lines(trim_buf, trim_sv)
  /\ trim_first' = trim_sv'
  /\ trim_pc' = "once"
  /\ UNCHANGED <<trim_buf, notTrim>>

TrimAgain ==
  /\ trim_pc = "once"
  /\ trim_sv' = sv_trim_empty_lines(trim_buf, trim_sv)
  /\ trim_pc' = "twice"
  /\ UNCHANGED <<trim_buf, trim_first, notTrim>>

NextTrim == TrimOnce \/ TrimAgain

InitTrimSpec ==
  InitGenIdle /\ InitDiscIdle /\ InitPipeIdle /\ InitTrim /\ InitSiteIdle /\ InitMapIdle /\ InitTrIdle /\ InitEncIdle /\ InitInlIdle
    /\ InitMdIdle

SpecTrim == InitTrimSpec /\ [][NextTrim]_vars

\* C14: sv_trim_empty_lines is idempotent: trimming a trimmed span leaves
\* its start position and its length as they are.
C14_TrimIdempotent == trim_pc = "twice" => trim_sv = trim_first

\* A span that lost leading blanks and trailing space and was trimmed again.
C14_Witness ==
  /\ trim_pc = "twice"
  /\ trim_first.off > 0 /\ trim_first.count > 0
  /\ trim_first.off + trim_first.count < Len(trim_buf)

(***************************************************************************)
(* md2html: text is a sequence of one-character strings ending with EOS,   *)
(* the terminating NUL; a pointer is a position from 1, and 0 is NULL.     *)
(***************************************************************************)
EOS == "NUL"

\* The grave accent (0x60), which a string of this notation cannot hold.
GRAVE == "U+0060"

Ch(d, k) == IF k \in 1..Len(d) THEN d[k] ELSE EOS

\* The characters d[from..to] as they stand.
Raw(d, from, to) == SubSeq(d, from, to)

\* da_append_escape_html: the entity of each of < > & ' ", the byte otherwise.
Entity(c) ==
  CASE c = "<"  -> "&lt;"
    [] c = ">"  -> "&gt;"
    [] c = "&"  -> "&amp;"
    [] c = "'"  -> "&#39;"
    [] c = "\"" -> "&quot;"
    [] OTHER    -> c

da_append_escape_html(o, d, from, to) ==
  o \o [k \in 1..(to - from + 1) |-> Entity(d[from + k - 1])]

\* starts_with: strncmp(line, prefix, strlen(prefix)) == 0
starts_with(d, k, prefix) ==
  \A i \in 1..Len(prefix) : Ch(d, k + i - 1) = prefix[i]

\* search_str_until_newline: the first place at or after hay, before the end
\* of the line, where needle stands; NULL when there is none or hay is NULL.
RECURSIVE search_str_until_newline(_, _, _)
search_str_until_newline(d, hay, needle) ==
  IF hay = 0 THEN 0
  ELSE IF Ch(d, hay) = EOS \/ Ch(d, hay) = "\n" THEN 0
  ELSE IF starts_with(d, hay, needle) THEN hay
  ELSE search_str_until_newline(d, hay + 1, needle)

\* strstr: the first place at or after k where needle stands, NULL if none.
RECURSIVE strstr(_, _, _)
strstr(d, k, needle) ==
  IF Ch(d, k) = EOS THEN 0
  ELSE IF starts_with(d, k, needle) THEN k
  ELSE strstr(d, k + 1, needle)

word_starts_with(d, k, prefix) ==
  starts_with(d, k, prefix) /\ Ch(d, k + Len(prefix)) # " "

word_ends_with(d, k, prefix) ==
  LET end == search_str_until_newline(d, k, prefix)
  IN  IF end # 0 /\ Ch(d, end - 1) = " " THEN 0 ELSE end

\* The PARSE_INLINE_TAG lines of parse_inline, in their order.
InlineTags ==
  << [start |-> <<"*", "*", "*">>, end |-> <<"*", "*", "*">>,
      html_start |-> "<strong><i>", html_end |-> "</i></strong>", kind |-> "tag"],
     [start |-> <<"*", "*", "_">>, end |-> <<"_", "*", "*">>,
      html_start |-> "<strong><i>", html_end |-> "</i></strong>", kind |-> "tag"],
     [start |-> <<"_", "*", "*">>, end |-> <<"*", "*", "_">>,
      html_start |-> "<strong><i>", html_end |-> "</i></strong>", kind |-> "tag"],
     [start |-> <<"*", "*">>, end |-> <<"*", "*">>,
      html_start |-> "<strong>", html_end |-> "</strong>", kind |-> "tag"],
     [start |-> <<"*">>, end |-> <<"*">>,
      html_start |-> "<i>", html_end |-> "</i>", kind |-> "tag"],
     [start |-> <<"_">>, end |-> <<"_">>,
      html_start |-> "<i>", html_end |-> "</i>", kind |-> "tag"],
     [start |-> <<GRAVE>>, end |-> <<GRAVE>>,
      html_start |-> "<code>", html_end |-> "</code>", kind |-> "tag"],
     [start |-> <<"\\", "(">>, end |-> <<"\\", ")">>,
      html_start |-> "\\(", html_end |-> "\\)", kind |-> "math"] >>

\* The result of one iteration of the while loop of parse_inline:
\* stop says the iteration left the loop by break.
InlineResult(p, o, cur, stop, kind) ==
  [p |-> p, out |-> o, cursor |-> cur, stop |-> stop, kind |-> kind]

\* da_append(r->out, *p); ++p;
inline_literal(d, p, o, cur) ==
  InlineResult(p + 1, Append(o, d[p]), cur, FALSE, "literal")

\* The body of PARSE_INLINE_TAG once word_starts_with(p, start) held.
inline_tag(d, p, o, cur, t) ==
  LET tag_end == word_ends_with(d, p + Len(t.start), t.end)
  IN  IF tag_end # 0
      THEN InlineResult(tag_end + Len(t.end),
                        da_append_escape_html(Append(o, t.html_start), d,
                                              p + Len(t.start), tag_end - 1)
                          \o <<t.html_end>>,
                        cur, FALSE, t.kind)
      ELSE inline_literal(d, p, o, cur)

\* else if ( *p == '[' ) { ... }
inline_link(d, p, o, cur) ==
  LET end_text == search_str_until_newline(d, p, <<"]">>)
      end_url  == search_str_until_newline(d, end_text + 2, <<")">>)
  IN  IF end_text = 0 \/ Ch(d, end_text + 1) # "("
      THEN InlineResult(p + 1, da_append_escape_html(o, d, p, p), cur, FALSE,
                        "literal")
      ELSE IF end_url = 0
      THEN InlineResult(p, o, cur, TRUE, "break")
      ELSE InlineResult(end_url + 1,
             (((Append(o, "<a href=\"") \o Raw(d, end_text + 2, end_url - 1))
                 \o <<"\">">>)
                 \o da_append_escape_html(<<>>, d, p + 1, end_text - 1))
                 \o <<"</a>">>,
             cur, FALSE, "link")

\* while (format > end_text && *(format-1) != '.') --format;
RECURSIVE figure_format(_, _, _)
figure_format(d, format, end_text) ==
  IF format > end_text /\ Ch(d, format - 1) # "."
  THEN figure_format(d, format - 1, end_text) ELSE format

\* else if (starts_with(p, "![")) { ... }
inline_figure(d, p, o, cur) ==
  LET end_text == search_str_until_newline(d, p + 2, <<"]">>)
      end_url  == search_str_until_newline(d, end_text + 2, <<")">>)
      format   == figure_format(d, end_url, end_text)
      ext      == Raw(d, format, end_url - 1)
      video    == ext = <<"m", "p", "4">> \/ ext = <<"w", "e", "b", "m">>
      text     == Raw(d, p + 2, end_text - 1)
      url      == Raw(d, end_text + 2, end_url - 1)
      alt      == da_append_escape_html(<<>>, d, p + 2, end_text - 1)
  IN  IF end_text = 0 \/ Ch(d, end_text + 1) # "("
      THEN InlineResult(p + 2, o \o Raw(d, p, p + 1), cur, FALSE, "literal")
      ELSE IF end_url = 0
      THEN InlineResult(p, o, cur, TRUE, "break")
      ELSE IF video
      THEN InlineResult(end_url + 1,
             o \o <<"<figure>\n\t<video autoplay controls muted loop playsinline width=\"100%\">\n\t\t<source src=\"">>
               \o url \o <<"\" type=\"video/">> \o ext \o <<"\" alt=\"">> \o alt
               \o <<"\">\n\t</video>\n\t<figcaption>">> \o text
               \o <<"\n\t</figcaption>\n</figure>\n">>,
             cur, FALSE, "figure")
      ELSE InlineResult(end_url + 1,
             o \o <<"<figure>\n\t<img src=\"">> \o url
               \o <<"\" loading=\"lazy\" alt=\"">> \o alt
               \o <<"\">\n\t<figcaption>">> \o text
               \o <<"</figcaption>\n</figure>\n">>,
             cur, FALSE, "figure")

\* else if (starts_with(p, "<?")) { ... }
inline_raw_code(d, p, o, cur) ==
  LET tag_end == strstr(d, p + 2, <<"?", ">">>)
  IN  IF tag_end # 0
      THEN InlineResult(tag_end + 2, o \o Raw(d, p, tag_end + 1), tag_end + 2,
                        FALSE, "raw_code")
      ELSE inline_literal(d, p, o, cur)

\* One iteration of the while loop of parse_inline at p.
parse_inline_iteration(d, p, o, cur) ==
  LET tags == {t \in 1..Len(InlineTags) : word_starts_with(d, p, InlineTags[t].start)}
  IN  IF starts_with(d, p, <<" ", " ", "\n">>)
         \/ starts_with(d, p, <<" ", " ", "\r", "\n">>)
      THEN InlineResult(p + 3, Append(o, "<br>\n"), cur, TRUE, "br")
      ELSE IF tags # {} THEN inline_tag(d, p, o, cur, InlineTags[Min(tags)])
      ELSE IF Ch(d, p) = "[" THEN inline_link(d, p, o, cur)
      ELSE IF starts_with(d, p, <<"!", "[">>) THEN inline_figure(d, p, o, cur)
      ELSE IF starts_with(d, p, <<"<", "?">>) THEN inline_raw_code(d, p, o, cur)
      ELSE inline_literal(d, p, o, cur)

\* while ( *p && *p != '\r' && *p != '\n' )
InlineLoopCond(d, p) == Ch(d, p) # EOS /\ Ch(d, p) # "\r" /\ Ch(d, p) # "\n"

(***************************************************************************)
(* parse_inline as a state machine over one line                           *)
(***************************************************************************)
MaxInlineParts == 3

InlineParts ==
  { <<"a">>, <<" ">>, <<"<">>, <<"*">>, <<"_">>, <<GRAVE>>,
    <<"\\", "(">>, <<"\\", ")">>, <<"[">>, <<"]", "(">>, <<")">>,
    <<"!", "[">>, <<"<", "?">>, <<"?", ">">>, <<"b", ".", "m", "p", "4">> }

\* What follows the line: the end of the text, or a line terminator and a
\* next line.
InlineTails == { <<EOS>>, <<"\n", "?", ">", "c", EOS>> }

InitInl ==
  /\ \E ps \in SeqsUpTo(InlineParts, MaxInlineParts), tail \in InlineTails :
       iline = Flatten(ps) \o tail
  /\ ip = 1 /\ iout = <<>> /\ icursor = 0 /\ ikind = "start" /\ ipc = "loop"

InlIterate ==
  /\ ipc = "loop" /\ InlineLoopCond(iline, ip)
  /\ LET n == parse_inline_iteration(iline, ip, iout, icursor)
     IN  /\ ip' = n.p /\ iout' = n.out /\ icursor' = n.cursor /\ ikind' = n.kind
         /\ ipc' = IF n.stop THEN "done" ELSE "loop"
  /\ UNCHANGED <<iline, notInl>>

InlReturn ==
  /\ ipc = "loop" /\ ~InlineLoopCond(iline, ip)
  /\ ipc' = "done"
  /\ UNCHANGED <<iline, ip, iout, icursor, ikind, notInl>>

NextInl == InlIterate \/ InlReturn

InitInlSpec == InitGenIdle /\ InitDiscIdle /\ InitPipeIdle /\ InitTrimIdle /\ InitInl /\ InitMdIdle /\ InitSiteIdle /\ InitMapIdle /\ InitTrIdle /\ InitEncIdle

SpecInl == InitInlSpec /\ [][NextInl]_vars

(***************************************************************************)
(* Properties of parse_inline                                              *)
(***************************************************************************)
\* Where the line that holds p ends: its newline or the terminator.
LineEndOf(d, p) == Min({k \in p..Len(d) : d[k] = EOS \/ d[k] = "\n"})

\* The needles stand one after another, in order, before the line ends.
RECURSIVE ClosedBy(_, _, _)
ClosedBy(d, from, needles) ==
  IF needles = <<>> THEN TRUE
  ELSE \E k \in from..(LineEndOf(d, from) - 1) :
         /\ starts_with(d, k, Head(needles))
         /\ ClosedBy(d, k + Len(Head(needles)), Tail(needles))

\* The opening delimiters in their priority, each with what closes it.
Openers ==
  << [open |-> <<"*", "*", "*">>, close |-> << <<"*", "*", "*">> >>],
     [open |-> <<"*", "*", "_">>, close |-> << <<"_", "*", "*">> >>],
     [open |-> <<"_", "*", "*">>, close |-> << <<"*", "*", "_">> >>],
     [open |-> <<"*", "*">>,      close |-> << <<"*", "*">> >>],
     [open |-> <<"*">>,           close |-> << <<"*">> >>],
     [open |-> <<"_">>,           close |-> << <<"_">> >>],
     [open |-> <<GRAVE>>,         close |-> << <<GRAVE>> >>],
     [open |-> <<"\\", "(">>,     close |-> << <<"\\", ")">> >>],
     [open |-> <<"[">>,           close |-> << <<"]", "(">>, <<")">> >>],
     [open |-> <<"!", "[">>,      close |-> << <<"]", "(">>, <<")">> >>],
     [open |-> <<"<", "?">>,      close |-> << <<"?", ">">> >>] >>

OpenersAt(d, p) == {i \in 1..Len(Openers) : starts_with(d, p, Openers[i].open)}

\* An opening delimiter stands at p and nothing closes it on the line.
UnclosedOpenerAt(d, p) ==
  /\ OpenersAt(d, p) # {}
  /\ LET o == Openers[Min(OpenersAt(d, p))]
     IN  ~ClosedBy(d, p + Len(o.open), o.close)

\* The iteration wrote the n characters at p as they stand and went on to
\* the character after them.
EmittedLiterally(n) ==
  /\ ipc' = "loop"
  /\ ip' = ip + n
  /\ iout' = iout \o Raw(iline, ip, ip + n - 1)

\* C8: an opening delimiter with no matching closer before the line ends is
\* emitted literally (its first character, or for the two-character "![" the
\* delimiter), the scan goes on right after it, and so the rest of the line
\* is still processed.
C8_UnclosedOpenerIsLiteral ==
  [][(ipc = "loop" /\ InlineLoopCond(iline, ip) /\ UnclosedOpenerAt(iline, ip))
       => (EmittedLiterally(1)
           \/ EmittedLiterally(Len(Openers[Min(OpenersAt(iline, ip))].open)))]_vars

EscapedChars == {"<", ">", "&", "'", "\""}

\* C9: a character of literal text, outside every recognized construct, that
\* is one of < > & ' " is written as its entity, never as itself.
C9_LiteralTextEscaped ==
  (ikind = "literal" /\ iline[ip - 1] \in EscapedChars)
    => iout[Len(iout)] = Entity(iline[ip - 1])

\* C10: a terminated inline math region and a terminated raw-code region are
\* copied to the output byte for byte, no character replaced by an entity.
C10_PassthroughUnescaped ==
  [][/\ (ip' # ip /\ ikind' = "math")
          => iout' = (Append(iout, "\\(") \o Raw(iline, ip + 2, ip' - 3))
                       \o <<"\\)">>
     /\ (ip' # ip /\ ikind' = "raw_code")
          => iout' = iout \o Raw(iline, ip, ip' - 1)]_vars

(***************************************************************************)
(* render_md_to_html                                                       *)
(***************************************************************************)
\* MdRenderer r with the two output buffers, and where the iteration goes
\* next: line is the argument of its parse_inline call (0 when it makes
\* none), closing what it appends after that call, continues whether it
\* ends in continue, fault whether it asked for a copy of a negative number
\* of bytes (the count is a size_t).
Renderer(c, p, l, o, fm) ==
  [cursor |-> c, in_paragraph |-> p, in_list |-> l, out |-> o, out_fm |-> fm,
   line |-> 0, closing |-> <<>>, continues |-> FALSE, fault |-> FALSE]

start_paragraph(r) ==
  IF ~r.in_paragraph
  THEN [r EXCEPT !.out = Append(@, "\n<p>\n"), !.in_paragraph = TRUE] ELSE r

end_paragraph(r) ==
  IF r.in_paragraph
  THEN [r EXCEPT !.out = Append(@, "</p>\n"), !.in_paragraph = FALSE] ELSE r

start_list(r) ==
  IF ~r.in_list THEN [r EXCEPT !.out = Append(@, "<ul>\n"), !.in_list = TRUE] ELSE r

end_list(r) ==
  IF r.in_list THEN [r EXCEPT !.out = Append(@, "</ul>\n"), !.in_list = FALSE] ELSE r

da_append_cstr(r, str) == [r EXCEPT !.out = Append(@, str)]

\* parse_inline(&r, line); and then the appends of closing.
parse_inline(r, line, after) == [r EXCEPT !.line = line, !.closing = after]

\* continue;
continue(r) == [r EXCEPT !.continues = TRUE]

\* The end of the line that holds k: the next newline or the terminator.
RECURSIVE line_end_from(_, _)
line_end_from(d, k) ==
  IF Ch(d, k) # EOS /\ Ch(d, k) # "\n" THEN line_end_from(d, k + 1) ELSE k

RECURSIVE trimmed_from(_, _)
trimmed_from(d, k) ==
  IF Ch(d, k) = " " \/ Ch(d, k) = "\t" \/ Ch(d, k) = "\r"
  THEN trimmed_from(d, k + 1) ELSE k

\* append_until_newline: the line and the byte that ends it.
append_until_newline(o, d, str) == o \o Raw(d, str, line_end_from(d, str))

skip_after_newline(d, k) ==
  LET e == line_end_from(d, k) IN IF Ch(d, e) = "\n" THEN e + 1 ELSE e

RECURSIVE skip_char(_, _, _)
skip_char(d, k, c) == IF Ch(d, k) = c THEN skip_char(d, k + 1, c) ELSE k

Fence == <<GRAVE, GRAVE, GRAVE>>

md_raw_code(r, d, trimmed) ==
  LET end == strstr(d, trimmed + 2, <<"?", ">">>)
  IN  IF end # 0
      THEN continue([r EXCEPT !.out = @ \o Raw(d, trimmed, end + 1),
                              !.cursor = end + 2])
      ELSE r

md_rule_or_front_matter(r, d, trimmed) ==
  LET end == strstr(d, trimmed + 3, <<"-", "-", "-">>)
  IN  IF trimmed # 1
      THEN continue([r EXCEPT !.out = Append(@, "<hr>"), !.cursor = trimmed + 3])
      ELSE IF end # 0
      THEN continue([r EXCEPT
                       !.out_fm = (Append(@, "<?") \o Raw(d, trimmed + 3, end - 1))
                                    \o <<"?>\n">>,
                       !.cursor = end + 3])
      ELSE r

md_html(r, d, trimmed) ==
  LET r1 == end_list(end_paragraph(r))
      html_end_start == search_str_until_newline(d, trimmed, <<"<", "/">>)
      html_end_end   == search_str_until_newline(d, html_end_start, <<">">>)
  IN  IF html_end_start = 0 \/ html_end_end = 0
      THEN [r1 EXCEPT !.out = append_until_newline(@, d, trimmed)]
      ELSE parse_inline([r1 EXCEPT !.out = @ \o Raw(d, trimmed, html_end_end),
                                   !.cursor = html_end_end + 1],
                        html_end_end + 1, <<>>)

md_heading(r, d, trimmed) ==
  LET r1    == end_list(end_paragraph(r))
      text  == skip_char(d, trimmed, "#")
      level == text - trimmed
      tag   == "h" \o ToString(level)
  IN  parse_inline([r1 EXCEPT !.out = @ \o <<"\n<", tag, ">">>],
                   skip_char(d, text, " "), <<"</", tag, ">\n">>)

md_checkbox(r, d, trimmed) ==
  parse_inline(da_append_cstr(end_list(end_paragraph(r)),
                              "<ul><li><input type=\"checkbox\" disabled>"),
               trimmed + 6, <<"</li></ul>\n">>)

md_list_item(r, d, trimmed) ==
  parse_inline(da_append_cstr(start_list(end_paragraph(r)), "<li>"),
               trimmed + 2, <<"</li>\n">>)

md_blockquote(r, d, trimmed) ==
  parse_inline(da_append_cstr(end_list(end_paragraph(r)), "<blockquote>"),
               trimmed + 2, <<"</blockquote>\n">>)

md_code(r, d, trimmed) ==
  LET r1       == end_list(end_paragraph(r))
      found    == strstr(d, trimmed + 3, Fence)
      code_end == IF found = 0 THEN Len(d) + 1 ELSE found
      from     == skip_after_newline(d, trimmed)
  IN  IF code_end - from < 0
      THEN [r1 EXCEPT !.out = Append(@, "<pre><code>\n"), !.fault = TRUE]
      ELSE continue([r1 EXCEPT
                       !.out = da_append_escape_html(Append(@, "<pre><code>\n"),
                                                     d, from, code_end - 1)
                                 \o <<"</code></pre>\n">>,
                       !.cursor = code_end + 3])

md_fence(r, d, trimmed) ==
  LET end  == strstr(d, trimmed + 3, Fence)
      from == skip_after_newline(d, trimmed)
  IN  IF trimmed = 1 /\ end # 0
      THEN IF end - from < 0
           THEN [r EXCEPT !.out_fm = Append(@, "<?"), !.fault = TRUE]
           ELSE continue([r EXCEPT
                            !.out_fm = (Append(@, "<?") \o Raw(d, from, end - 1))
                                         \o <<"?>\n">>,
                            !.cursor = end + 3])
      ELSE md_code(r, d, trimmed)

md_figure(r, d, trimmed) == parse_inline(end_paragraph(r), trimmed, <<>>)

md_paragraph(r, d, trimmed) ==
  parse_inline(start_paragraph(end_list(r)), trimmed, <<"\n">>)

\* One iteration of the while loop of render_md_to_html, up to its call of
\* parse_inline if it makes one and to its end otherwise.
md_iteration(r, d) ==
  LET trimmed == trimmed_from(d, r.cursor)
  IN  IF line_end_from(d, r.cursor) - trimmed = 0
      THEN end_list(end_paragraph(r))
      ELSE IF starts_with(d, trimmed, <<"<", "?">>) THEN md_raw_code(r, d, trimmed)
      ELSE IF starts_with(d, trimmed, <<"-", "-", "-">>)
      THEN md_rule_or_front_matter(r, d, trimmed)
      ELSE IF Ch(d, trimmed) = "<" THEN md_html(r, d, trimmed)
      ELSE IF Ch(d, trimmed) = "#" THEN md_heading(r, d, trimmed)
      ELSE IF starts_with(d, trimmed, <<"-", " ", "[", " ", "]", " ">>)
      THEN md_checkbox(r, d, trimmed)
      ELSE IF starts_with(d, trimmed, <<"-", " ">>)
              \/ starts_with(d, trimmed, <<"*", " ">>)
      THEN md_list_item(r, d, trimmed)
      ELSE IF starts_with(d, trimmed, <<">", " ">>) THEN md_blockquote(r, d, trimmed)
      ELSE IF starts_with(d, trimmed, Fence) THEN md_fence(r, d, trimmed)
      ELSE IF starts_with(d, trimmed, <<"!", "[">>) THEN md_figure(r, d, trimmed)
      ELSE md_paragraph(r, d, trimmed)

\* if (r.cursor > line_end) continue;
\* r.cursor = ( *line_end == '\n' ) ? line_end + 1 : line_end;
next_line(d, c, le) ==
  IF c > le THEN c ELSE IF Ch(d, le) = "\n" THEN le + 1 ELSE le

\* if (out->count) da_append(out, '\0');
terminated(o) == IF o # <<>> THEN Append(o, EOS) ELSE o

\* What follows the loop, to the return.
\* The return without the two closings of lines 925-926.
md_return_leaves_open(r) ==
  [r EXCEPT !.out = terminated(@), !.out_fm = terminated(@)]

md_return(r) ==
  LET r1 == end_list(end_paragraph(r))
  IN  [r1 EXCEPT !.out = terminated(@), !.out_fm = terminated(@)]

(***************************************************************************)
(* render_md_to_html as a state machine over one document                  *)
(***************************************************************************)
MaxMdParts == 2

MdParts ==
  { <<"a", "\n">>,
    <<"\n">>,
    <<"a">>,
    <<" ", "a", "\r", "\n">>,
    <<"a", " ", " ", "\n">>,
    <<"-", " ", "a", "\n">>,
    <<"*", " ", "a", "\n">>,
    <<"-", " ", "[", " ", "]", " ", "a", "\n">>,
    <<"#", " ", "a", "\n">>,
    <<">", " ", "a", "\n">>,
    <<"-", "-", "-", "\n">>,
    <<GRAVE, GRAVE, GRAVE, "\n">>,
    <<GRAVE, GRAVE, GRAVE, "a", GRAVE, GRAVE, GRAVE, "\n">>,
    <<"<", "?", "a", "?", ">", "\n">>,
    <<"<", "?", "a", "\n">>,
    <<"?", ">", "a", "\n">>,
    <<"a", " ", "<", "?", "b", "\n">>,
    <<"<", "b", ">", "a", "<", "/", "b", ">", "\n">>,
    <<"<", "b", ">", "\n">>,
    <<"!", "[", "a", "]", "(", "b", ")", "\n">>,
    <<"[", "a", "]", "(", "b", "\n">>,
    <<"*", "a", "\n">>,
    <<"!", "[", "a", "]", "(", "b", ")", "\n", "-", " ", "a", "\n">>,
    <<"-", "-", "-", "\n", "x", "\n", "-", "-", "-", "\n">>,
    <<"-", "-", "-", "\n", "x", "-", "-", "-", "y", "\n", "-", "-", "-", "\n">> }

InitMd ==
  /\ \E ps \in SeqsUpTo(MdParts, MaxMdParts) : md = Flatten(ps) \o <<EOS>>
  /\ cursor = 1 /\ in_paragraph = FALSE /\ in_list = FALSE
  /\ md_out = <<>> /\ md_out_fm = <<>> /\ line_end = 0 /\ mp = 0
  /\ closing = <<>> /\ mpc = "loop"

\* The loop body, entered while r.cursor points at a byte of the document
\* that is not the terminator: to the call of parse_inline, or to the end of
\* the iteration when the branch makes no such call.
MdIterate ==
  /\ mpc = "loop" /\ cursor \in 1..Len(md) /\ md[cursor] # EOS
  /\ LET r  == md_iteration(Renderer(cursor, in_paragraph, in_list, md_out,
                                     md_out_fm), md)
         le == line_end_from(md, cursor)
     IN  /\ in_paragraph' = r.in_paragraph /\ in_list' = r.in_list
         /\ md_out' = r.out /\ md_out_fm' = r.out_fm
         /\ line_end' = le /\ mp' = r.line /\ closing' = r.closing
         /\ cursor' = IF r.line # 0 \/ r.continues \/ r.fault THEN r.cursor
                      ELSE next_line(md, r.cursor, le)
         /\ mpc' = IF r.fault THEN "fault" ELSE IF r.line # 0 THEN "inline"
                   ELSE "loop"
  /\ UNCHANGED <<md, notMd>>

\* One iteration of the loop of the parse_inline call under way.
MdInline ==
  /\ mpc = "inline" /\ InlineLoopCond(md, mp)
  /\ LET n == parse_inline_iteration(md, mp, md_out, cursor)
     IN  /\ mp' = n.p /\ md_out' = n.out /\ cursor' = n.cursor
         /\ mpc' = IF n.stop THEN "line" ELSE "inline"
  /\ UNCHANGED <<md, in_paragraph, in_list, md_out_fm, line_end, closing, notMd>>

\* The loop of parse_inline ends at the end of the line.
MdInlineReturn ==
  /\ mpc = "inline" /\ ~InlineLoopCond(md, mp)
  /\ mpc' = "line"
  /\ UNCHANGED <<md, cursor, in_paragraph, in_list, md_out, md_out_fm, line_end,
                 mp, closing, notMd>>

\* From the return of parse_inline to the end of the iteration.
MdLine ==
  /\ mpc = "line"
  /\ md_out' = md_out \o closing
  /\ cursor' = next_line(md, cursor, line_end)
  /\ mpc' = "loop"
  /\ UNCHANGED <<md, in_paragraph, in_list, md_out_fm, line_end, mp, closing, notMd>>

MdReturn ==
  /\ mpc = "loop" /\ cursor \in 1..Len(md) /\ md[cursor] = EOS
  /\ LET r == md_return(Renderer(cursor, in_paragraph, in_list, md_out, md_out_fm))
     IN  /\ in_paragraph' = r.in_paragraph /\ in_list' = r.in_list
         /\ md_out' = r.out /\ md_out_fm' = r.out_fm
  /\ mpc' = "done"
  /\ UNCHANGED <<md, cursor, line_end, mp, closing, notMd>>

\* The loop condition read through a cursor that has left the document: the
\* byte it finds is not the program's to know.  Either it is zero and the
\* function returns, or it is not and the run has no defined outcome.
MdStrayReturn ==
  /\ mpc = "loop" /\ cursor > Len(md)
  /\ LET r == md_return(Renderer(cursor, in_paragraph, in_list, md_out, md_out_fm))
     IN  /\ in_paragraph' = r.in_paragraph /\ in_list' = r.in_list
         /\ md_out' = r.out /\ md_out_fm' = r.out_fm
  /\ mpc' = "done"
  /\ UNCHANGED <<md, cursor, line_end, mp, closing, notMd>>

MdStrayFault ==
  /\ mpc = "loop" /\ cursor > Len(md)
  /\ mpc' = "fault"
  /\ UNCHANGED <<md, cursor, in_paragraph, in_list, md_out, md_out_fm, line_end,
                 mp, closing, notMd>>

NextMd ==
  \/ MdIterate \/ MdInline \/ MdInlineReturn \/ MdLine \/ MdReturn
  \/ MdStrayReturn \/ MdStrayFault

InitMdSpec ==
  InitGenIdle /\ InitDiscIdle /\ InitPipeIdle /\ InitTrimIdle /\ InitMd /\ InitSiteIdle /\ InitMapIdle /\ InitTrIdle /\ InitEncIdle /\ InitInlIdle

SpecMd == InitMdSpec /\ [][NextMd]_vars

(***************************************************************************)
(* Properties of render_md_to_html                                         *)
(***************************************************************************)
CountOf(q, c) == Cardinality({i \in DOMAIN q : q[i] = c})

\* The characters the documents use for text.
TextChars == {"a", "b"}

HasFence(d) == \E k \in 1..Len(d) : starts_with(d, k, Fence)

\* C7: the renderer terminates on every NUL-terminated document, its cursor
\* reaching the terminator, and drops no text: outside code fences (whose
\* first line is skipped by design) every text character of the document is
\* in the body or the front matter.
C7_TerminatesWithPassthrough ==
  /\ mpc # "fault"
  /\ cursor <= Len(md)
  /\ mpc = "done" =>
       /\ cursor = Len(md)
       /\ ~HasFence(md) =>
            \A c \in TextChars : CountOf(md, c) <= CountOf(md_out \o md_out_fm, c)

HasFigure(d) == \E k \in 1..Len(d) : starts_with(d, k, <<"!", "[">>)

\* Outside figures (whose caption is written twice by design) no text
\* character is in the body more often than in the document.
NoTextTwice ==
  (mpc = "done" /\ ~HasFigure(md))
    => \A c \in TextChars : CountOf(md_out, c) <= CountOf(md, c)

\* C11: the cursor only moves forward and no input byte is processed twice:
\* each input character contributes to the body at most once, also when an
\* inline raw-code region opened on one line closes on a later line.
C11_NoByteProcessedTwice == []NoTextTwice /\ [][cursor' >= cursor]_vars

Rule == <<"-", "-", "-">>

\* Where the lines of d start.
LineStarts(d) == {1} \cup {k + 1 : k \in {j \in 1..(Len(d) - 1) : d[j] = "\n"}}

\* The lines after the first that start with ---.
ClosingRules(d) == {k \in LineStarts(d) : k > 1 /\ starts_with(d, k, Rule)}

\* d opens at offset 0 with a --- line and a later line starts with ---.
HasFrontMatter(d) ==
  starts_with(d, 1, <<"-", "-", "-", "\n">>) /\ ClosingRules(d) # {}

\* The characters the documents use for front matter.
FrontMatterChars == {"x", "y"}

\* What follows the closing --- of the front matter.
BodyText(d) == Raw(d, Min(ClosingRules(d)) + 3, Len(d))

\* C12: of a document that opens with a --- line, front matter A, a closing
\* --- line and body B, exactly A (all up to the next line that starts with
\* ---) is in the front-matter buffer, as one raw-code region, and nothing of
\* A is in the body: the body holds no front-matter character that B lacks.
C12_FrontMatterIsolated ==
  (mpc = "done" /\ HasFrontMatter(md))
    => /\ md_out_fm = (<<"<?">> \o Raw(md, 4, Min(ClosingRules(md)) - 1))
                        \o <<"?>\n", EOS>>
       /\ \A c \in FrontMatterChars :
            CountOf(md_out, c) <= CountOf(BodyText(md), c)

\* The lines of d: where each starts, the terminator apart.
Lines(d) == {k \in LineStarts(d) : d[k] # EOS}

IsCheckboxLine(d, k) ==
  starts_with(d, trimmed_from(d, k), <<"-", " ", "[", " ", "]", " ">>)

IsListLine(d, k) ==
  /\ ~IsCheckboxLine(d, k)
  /\ \/ starts_with(d, trimmed_from(d, k), <<"-", " ">>)
     \/ starts_with(d, trimmed_from(d, k), <<"*", " ">>)

\* The list lines that open a run: the line before is not a list line.
RunStarts(d) ==
  {k \in Lines(d) :
     /\ IsListLine(d, k)
     /\ k = 1 \/ ~IsListLine(d, Max({j \in Lines(d) : j < k}))}

\* Documents whose lines are what they look like: no code fence, no front
\* matter and no raw-code region to take lines away.
PlainLines(d) ==
  /\ ~HasFence(d)
  /\ ~starts_with(d, 1, Rule)
  /\ ~\E k \in 1..Len(d) : starts_with(d, k, <<"<", "?">>)

\* C13: every run of N consecutive list lines gives one <ul>, N <li> and
\* one </ul>; every checkbox line gives its own complete list of one item and
\* ends the run before it.
C13_ListGrouping ==
  (mpc = "done" /\ PlainLines(md))
    => /\ CountOf(md_out, "<ul>\n") = Cardinality(RunStarts(md))
       /\ CountOf(md_out, "</ul>\n") = Cardinality(RunStarts(md))
       /\ CountOf(md_out, "<li>")
            = Cardinality({k \in Lines(md) : IsListLine(md, k)})
       /\ CountOf(md_out, "<ul><li><input type=\"checkbox\" disabled>")
            = Cardinality({k \in Lines(md) : IsCheckboxLine(md, k)})
       /\ CountOf(md_out, "</li></ul>\n")
            = Cardinality({k \in Lines(md) : IsCheckboxLine(md, k)})

(***************************************************************************)
(* One page and one layout, from the files to the written page: render_all *)
(* (render_mite_layout, render_page), second_stage_codegen, and the run of *)
(* the generated program.                                                  *)
(***************************************************************************)
\* The printable characters, from the space (32) to the tilde (126).
AsciiChars ==
  <<" ", "!", "\"", "#", "$", "%", "&", "'", "(", ")", "*", "+", ",", "-",
    ".", "/", "0", "1", "2", "3", "4", "5", "6", "7", "8", "9", ":", ";",
    "<", "=", ">", "?", "@", "A", "B", "C", "D", "E", "F", "G", "H", "I",
    "J", "K", "L", "M", "N", "O", "P", "Q", "R", "S", "T", "U", "V", "W",
    "X", "Y", "Z", "[", "\\", "]", "^", "_", GRAVE, "a", "b", "c", "d",
    "e", "f", "g", "h", "i", "j", "k", "l", "m", "n", "o", "p", "q", "r",
    "s", "t", "u", "v", "w", "x", "y", "z", "{", "|", "}", "~">>

\* The byte of a character of a buffer.
Byte(c) ==
  CASE c = EOS  -> NUL
    [] c = "\t" -> TAB
    [] c = "\n" -> NL
    [] c = "\r" -> CR
    [] OTHER    -> 31 + (CHOOSE k \in 1..Len(AsciiChars) : AsciiChars[k] = c)

\* The characters of what one append puts into a buffer: those of the string
\* literal, or the one character copied from the document.
Spell(chunk) ==
  CASE chunk = "\n<p>\n"         -> <<"\n", "<", "p", ">", "\n">>
    [] chunk = "</p>\n"          -> <<"<", "/", "p", ">", "\n">>
    [] chunk = "\n<"             -> <<"\n", "<">>
    [] chunk = "h1"              -> <<"h", "1">>
    [] chunk = "</"              -> <<"<", "/">>
    [] chunk = ">\n"             -> <<">", "\n">>
    [] chunk = "<?"              -> <<"<", "?">>
    [] chunk = "?>\n"            -> <<"?", ">", "\n">>
    [] chunk = "<pre><code>\n"   ->
         <<"<", "p", "r", "e", ">", "<", "c", "o", "d", "e", ">", "\n">>
    [] chunk = "</code></pre>\n" ->
         <<"<", "/", "c", "o", "d", "e", ">", "<", "/", "p", "r", "e", ">", "\n">>
    [] OTHER                     -> <<chunk>>

RECURSIVE Bytes(_)
Bytes(chunks) ==
  IF chunks = <<>> THEN <<>>
  ELSE [k \in 1..Len(Spell(Head(chunks))) |-> Byte(Spell(Head(chunks))[k])]
         \o Bytes(Tail(chunks))

\* The page of the scenario, with its front-matter block closed on the next
\* line or after an empty line, and two more pages, as the files hold them.
DocHi ==
  <<"-", "-", "-", "\n", "-", "-", "-", "\n", "#", " ", "H", "i", "\n",
    "\n", "W", "o", "r", "l", "d", ".", "\n">>
DocHiBlank ==
  <<"-", "-", "-", "\n", "\n", "-", "-", "-", "\n", "#", " ", "H", "i",
    "\n", "\n", "W", "o", "r", "l", "d", ".", "\n">>
DocPlain ==
  <<"W", "o", "r", "l", "d", ".", "\n">>
DocFence ==
  <<"#", " ", "H", "i", "\n", GRAVE, GRAVE, GRAVE, "\n">>
ScenarioDocs == {DocHi \o <<EOS>>, DocHiBlank \o <<EOS>>}
PipeDocs == {DocHi, DocHiBlank, DocPlain, DocFence}

\* The layout of the scenario, the same with a final newline, and one that
\* includes before it renders the content.
LayoutDefault ==
  <<"<", "h", "t", "m", "l", ">", "<", "b", "o", "d", "y", ">", "<", "?",
    " ", "C", "O", "N", "T", "E", "N", "T", "(", ")", " ", "?", ">", "<",
    "/", "b", "o", "d", "y", ">", "<", "/", "h", "t", "m", "l", ">">>
LayoutInclude ==
  <<"<", "?", " ", "I", "N", "C", "L", "U", "D", "E", "(", "\"", "d", "e",
    "f", "a", "u", "l", "t", "\"", ")", " ", "?", ">", "\n", "<", "p", ">",
    "<", "?", " ", "C", "O", "N", "T", "E", "N", "T", "(", ")", " ", "?",
    ">", "<", "/", "p", ">", "\n">>
PipeLayouts == {LayoutDefault, LayoutDefault \o <<"\n">>, LayoutInclude}

\* The statements a template or a page may hold between its markers here.
StmtContent == Bytes(<<"C", "O", "N", "T", "E", "N", "T", "(", ")", "\n">>)
StmtInclude ==
  Bytes(<<"I", "N", "C", "L", "U", "D", "E", "(", "\"", "d", "e", "f", "a",
      "u", "l", "t", "\"", ")", "\n">>)

\* What the C compiler makes of a rendered routine: OUT_HTML of the bytes of
\* the literal, the two macros, and nothing for an empty statement.
RECURSIVE Compile(_)
Compile(code) ==
  IF code = <<>> THEN <<>>
  ELSE LET i == Head(code)
       IN  (CASE i.op = "OUT_HTML"                       -> <<Lit(OutHtmlBytes(i))>>
              [] i.op = "CODE" /\ i.text = StmtContent   -> <<Content>>
              [] i.op = "CODE" /\ i.text = StmtInclude   -> <<Include("default")>>
              [] i.op = "CODE" /\ i.text = <<NL>>        -> <<>>)
             \o Compile(Tail(code))

\* site_page_new_tdu: p->layout = DEFAULT_PAGE_LAYOUT;
DEFAULT_PAGE_LAYOUT == "default"

InitPipe ==
  /\ mt_file \in {Bytes(l) : l \in PipeLayouts}
  /\ md \in {d \o <<EOS>> : d \in PipeDocs}
  /\ mt_rendered_code = <<>> /\ mp_rendered_code = <<>> /\ mp_front_matter = <<>>
  /\ tbuf = mt_file /\ source = View(0, Len(mt_file)) /\ html_mode = TRUE
  /\ tcode = <<>> /\ tpc = "loop"
  /\ cursor = 1 /\ in_paragraph = FALSE /\ in_list = FALSE
  /\ md_out = <<>> /\ md_out_fm = <<>> /\ line_end = 0 /\ mp = 0
  /\ closing = <<>> /\ mpc = "idle"
  /\ pipe_pc = "layout"

\* render_html_to_c(SB_TO_SV(&tmpl), &mite->rendered_code) has returned;
\* render_page reads the page and calls render_md_to_html.
PipeLayoutDone ==
  /\ pipe_pc = "layout" /\ tpc = "done"
  /\ mt_rendered_code' = tcode
  /\ mpc' = "loop"
  /\ pipe_pc' = "page"
  /\ UNCHANGED <<mt_file, mp_rendered_code, mp_front_matter>>
  /\ UNCHANGED <<md, cursor, in_paragraph, in_list, md_out, md_out_fm, line_end,
                 mp, closing>>
  /\ UNCHANGED <<siteVars, trVars, notPipeSiteTrMd>>

\* render_md_to_html has returned:
\* render_html_to_c(SB_TO_SV(&raw_html), &mite_page->rendered_code);
PipeBody ==
  /\ pipe_pc = "page" /\ mpc = "done"
  /\ tbuf' = Bytes(md_out) /\ source' = View(0, Len(Bytes(md_out)))
  /\ html_mode' = TRUE /\ tcode' = <<>> /\ tpc' = "loop"
  /\ pipe_pc' = "body"
  /\ UNCHANGED <<mt_file, mt_rendered_code, mp_rendered_code, mp_front_matter>>
  /\ UNCHANGED <<siteVars, mdVars, notPipeSiteTrMd>>

\* render_html_to_c(SB_TO_SV(&raw_fm), &mite_page->front_matter);
PipeFrontMatter ==
  /\ pipe_pc = "body" /\ tpc = "done"
  /\ mp_rendered_code' = tcode
  /\ tbuf' = Bytes(md_out_fm) /\ source' = View(0, Len(Bytes(md_out_fm)))
  /\ html_mode' = TRUE /\ tcode' = <<>> /\ tpc' = "loop"
  /\ pipe_pc' = "fm"
  /\ UNCHANGED <<mt_file, mt_rendered_code, mp_front_matter>>
  /\ UNCHANGED <<siteVars, mdVars, notPipeSiteTrMd>>

PipePageDone ==
  /\ pipe_pc = "fm" /\ tpc = "done"
  /\ mp_front_matter' = tcode
  /\ pipe_pc' = "codegen"
  /\ UNCHANGED <<mt_file, mt_rendered_code, mp_rendered_code>>
  /\ UNCHANGED <<siteVars, trVars, mdVars, notPipeSiteTrMd>>

\* second_stage_codegen and the compiler, then the generated main() up to its
\* loop: construct_global_state() runs the front matter on a page made by
\* site_page_new_tdu, construct_templates() registers the layout.
PipeCodegen ==
  /\ pipe_pc = "codegen"
  /\ templates' = <<[name |-> "default", is_include |-> FALSE,
                     code |-> Compile(mt_rendered_code)]>>
  /\ pages' = <<[layout |-> DEFAULT_PAGE_LAYOUT,
                 code |-> Compile(mp_front_matter) \o Compile(mp_rendered_code)]>>
  /\ pc' = "find" /\ pi' = 1 /\ st' = 0 /\ stack' = <<>> /\ out' = <<>>
  /\ files' = <<NotWritten>> /\ status' = "running" /\ err' = <<>>
  /\ pipe_pc' = "run"
  /\ UNCHANGED <<mt_file, mt_rendered_code, mp_rendered_code, mp_front_matter>>
  /\ UNCHANGED <<trVars, mdVars, notPipeSiteTrMd>>

NextPipe ==
  \/ TrHtml \/ TrCode \/ TrDone
  \/ PipeLayoutDone
  \/ MdIterate \/ MdInline \/ MdInlineReturn \/ MdLine \/ MdReturn
  \/ MdStrayReturn \/ MdStrayFault
  \/ PipeBody \/ PipeFrontMatter \/ PipePageDone \/ PipeCodegen
  \/ DriverFindTemplate \/ DriverCall \/ ExecOutHtml \/ ExecContent
  \/ ExecInclude \/ ExecReturn \/ DriverWrite \/ DriverReturn

InitPipeSpec ==
  InitGenIdle /\ InitDiscIdle /\ InitPipe /\ InitSiteIdle /\ InitMapIdle /\ InitEncIdle /\ InitInlIdle
    /\ InitTrimIdle

SpecPipe == InitPipeSpec /\ [][NextPipe]_vars

\* The page the scenario expects.
ExpectedHi ==
  <<"<", "h", "t", "m", "l", ">", "<", "b", "o", "d", "y", ">", "\n", "<",
    "h", "1", ">", "H", "i", "<", "/", "h", "1", ">", "\n", "\n", "<", "p",
    ">", "\n", "W", "o", "r", "l", "d", ".", "\n", "<", "/", "p", ">",
    "\n", "<", "/", "b", "o", "d", "y", ">", "<", "/", "h", "t", "m", "l",
    ">">>

\* C15: for the documents of ScenarioDocs and the layout LayoutDefault the generated
\* program neither aborts nor crashes, and what it writes to the page's
\* output is exactly the layout's literal before the marker, the body
\* "\n<h1>Hi</h1>\n\n<p>\nWorld.\n</p>\n", and the layout's literal after it.
C15_EndToEnd ==
  (md \in ScenarioDocs /\ mt_file = Bytes(LayoutDefault)) =>
    /\ mpc # "fault"
    /\ status \in {"idle", "running", "exit0"}
    /\ status = "exit0" => files # <<>> /\ files[1] # NotWritten
    /\ (files # <<>> /\ files[1] # NotWritten) =>
         Flatten(files[1]) = Bytes(ExpectedHi)

\* C15: the scenario ran to the end and its page was written.
C15_Witness ==
  /\ md = DocHi \o <<EOS>> /\ mt_file = Bytes(LayoutDefault)
  /\ status = "exit0" /\ Flatten(files[1]) = Bytes(ExpectedHi)

(***************************************************************************)
(* Discovery: search_files over a site directory, and the files the        *)
(* generated program writes for the pages it registered.                   *)
(***************************************************************************)
MaxRoot == 3

\* A file name is a stem and an extension; a path is the sequence of its
\* names, "." first.
Name(stem, ext) == [stem |-> stem, ext |-> ext]
File(n)   == [d_name |-> n, d_type |-> "DT_REG", list |-> <<>>]
Dir(n, l) == [d_name |-> n, d_type |-> "DT_DIR", list |-> l]
Link(n)   == [d_name |-> n, d_type |-> "DT_LNK", list |-> <<>>]

Here     == Name(".", "")
IndexMd  == Name("index", ".md")
RssMd    == Name("rss", ".md")
IsDot(n) == n = Name(".", "") \/ n = Name("..", "")

\* ends_with(name, ".md"), ends_with(name, ".mite")
is_md_file(n)   == n.ext = ".md"
is_mite_file(n) == n.ext = ".mite"

\* snprintf(out, ..., "%s/%s", a, b)
join_path(a, b) == Append(a, b)

\* mt->name is the file name without a final ".mite".
register_mite_file(ts, mite_dir, mite_name, is_include) ==
  Append(ts, [path |-> join_path(mite_dir, mite_name),
              name |-> IF mite_name.ext = ".mite" /\ mite_name.stem # ""
                       THEN mite_name.stem ELSE mite_name,
              is_include |-> is_include])

\* mp->name is md_path+2 without a final ".md", every other character than a
\* letter or a digit replaced by '_' (here: the stems, '_' between them);
\* final_html_path is index.html in the directory of the markdown file.
register_md_file(ps, md_dir, md_name) ==
  LET md_path == join_path(md_dir, md_name)
  IN  Append(ps, [md_path |-> md_path,
                  name |-> [k \in 1..Len(md_path) - 1 |-> md_path[k + 1].stem],
                  final_html_path |-> join_path(md_dir, Name("index", ".html"))])

\* while ((f = readdir(subsub)) != NULL): every regular markdown file.
RECURSIVE search_subsub(_, _, _, _)
search_subsub(ps, path, list, k) ==
  IF k > Len(list) THEN ps
  ELSE search_subsub(IF list[k].d_type = "DT_REG" /\ is_md_file(list[k].d_name)
                     THEN register_md_file(ps, path, list[k].d_name) ELSE ps,
                     path, list, k + 1)

\* while ((subentry = readdir(subdir)) != NULL)
RECURSIVE search_subdir(_, _, _, _, _, _)
search_subdir(ps, ts, subdir_path, dir_type, list, k) ==
  IF k > Len(list) THEN [pages |-> ps, templates |-> ts]
  ELSE IF list[k].d_type \notin {"DT_REG", "DT_DIR"} \/ IsDot(list[k].d_name)
  THEN search_subdir(ps, ts, subdir_path, dir_type, list, k + 1)
  ELSE IF list[k].d_type = "DT_REG"
  THEN search_subdir(
         IF dir_type = 1 /\ is_md_file(list[k].d_name)
         THEN register_md_file(ps, subdir_path, list[k].d_name) ELSE ps,
         IF dir_type > 1 /\ is_mite_file(list[k].d_name)
         THEN register_mite_file(ts, subdir_path, list[k].d_name, dir_type = 3)
         ELSE ts,
         subdir_path, dir_type, list, k + 1)
  ELSE search_subdir(
         IF dir_type = 1
         THEN search_subsub(ps, join_path(subdir_path, list[k].d_name),
                            list[k].list, 1)
         ELSE ps,
         ts, subdir_path, dir_type, list, k + 1)

\* int dir_type = 1; "layout" makes it 2, "include" 3.
dir_type_of(n) ==
  IF n = Name("include", "") THEN 3 ELSE IF n = Name("layout", "") THEN 2 ELSE 1

\* What a site directory may hold.
Markdowns == <<File(Name("a", ".md")), File(Name("b", ".md"))>>
RootEntries ==
  { File(IndexMd), File(RssMd), File(Name("a", ".md")), Link(IndexMd),
    Dir(Name(".", ""), <<>>),
    Dir(Name("layout", ""), <<File(Name("default", ".mite")), File(Name("a", ".md"))>>),
    Dir(Name("include", ""), <<File(Name("head", ".mite")), Dir(Name("d", ""), Markdowns)>>),
    Dir(Name("posts", ""), Markdowns),
    Dir(Name("blog", ""), <<Dir(Name("p", ""), Markdowns), File(Name("n", ".txt")),
                            Dir(Name("..", ""), <<>>)>>),
    Dir(Name("docs", ""), <<Dir(Name("q", ""), <<Dir(Name("r", ""), <<>>),
                                                 File(Name("b", ".md")),
                                                 Link(Name("a", ".md"))>>),
                            File(Name("a", ".md")), Link(Name("b", ".md"))>>) }

InitDisc ==
  /\ root_dir \in {r \in SeqsUpTo(RootEntries, MaxRoot) :
                     \A i, j \in 1..Len(r) : i # j => r[i].d_name # r[j].d_name}
  /\ di = 0 /\ mite_pages = <<>> /\ mite_templates = <<>>
  /\ written = {} /\ disc_pc = "search"

Reading == disc_pc = "search" /\ di < Len(root_dir)
DirEntry == root_dir[di + 1]

\* Neither a directory nor a regular file, or one of "." and "..".
SearchSkip ==
  /\ Reading
  /\ DirEntry.d_type \notin {"DT_DIR", "DT_REG"} \/ IsDot(DirEntry.d_name)
  /\ di' = di + 1
  /\ UNCHANGED <<root_dir, mite_pages, mite_templates, written, disc_pc, notDisc>>

\* A regular file of the site directory: index.md and rss.md are pages.
SearchFile ==
  /\ Reading
  /\ DirEntry.d_type = "DT_REG" /\ ~IsDot(DirEntry.d_name)
  /\ mite_pages' = IF DirEntry.d_name = IndexMd \/ DirEntry.d_name = RssMd
                   THEN register_md_file(mite_pages, <<Here>>, DirEntry.d_name)
                   ELSE mite_pages
  /\ di' = di + 1
  /\ UNCHANGED <<root_dir, mite_templates, written, disc_pc, notDisc>>

\* A directory of the site directory, with the loops over what it holds.
SearchDir ==
  /\ Reading
  /\ DirEntry.d_type = "DT_DIR" /\ ~IsDot(DirEntry.d_name)
  /\ LET r == search_subdir(mite_pages, mite_templates,
                            join_path(<<Here>>, DirEntry.d_name),
                            dir_type_of(DirEntry.d_name), DirEntry.list, 1)
     IN  mite_pages' = r.pages /\ mite_templates' = r.templates
  /\ di' = di + 1
  /\ UNCHANGED <<root_dir, written, disc_pc, notDisc>>

\* closedir(root);
SearchReturn ==
  /\ disc_pc = "search" /\ di = Len(root_dir)
  /\ disc_pc' = "run"
  /\ UNCHANGED <<root_dir, di, mite_pages, mite_templates, written, notDisc>>

\* write_to_file(page->output, &out) for each page in turn, page->output
\* being final_html_path+2 as construct_global_state sets it: the file of
\* that path now holds the page.
RECURSIVE write_pages(_, _, _)
write_pages(fs, ps, i) ==
  IF i > Len(ps) THEN fs
  ELSE write_pages({w \in fs : w.path # ps[i].final_html_path}
                     \cup {[path |-> ps[i].final_html_path, page |-> i]},
                   ps, i + 1)

GeneratedRun ==
  /\ disc_pc = "run"
  /\ written' = write_pages(written, mite_pages, 1)
  /\ disc_pc' = "done"
  /\ UNCHANGED <<root_dir, di, mite_pages, mite_templates, notDisc>>

NextDisc == SearchSkip \/ SearchFile \/ SearchDir \/ SearchReturn \/ GeneratedRun

InitDiscSpec ==
  InitGenIdle /\ InitDisc /\ InitPipeIdle /\ InitTrimIdle /\ InitMdIdle /\ InitSiteIdle
    /\ InitMapIdle /\ InitTrIdle /\ InitEncIdle /\ InitInlIdle

SpecDisc == InitDiscSpec /\ [][NextDisc]_vars

\* C17: any two registered pages have different output paths, and once the
\* generated program has run there are as many output files as pages.
C17_OneFilePerPage ==
  /\ \A i, j \in 1..Len(mite_pages) :
       i # j => mite_pages[i].final_html_path # mite_pages[j].final_html_path
  /\ disc_pc = "done" => Cardinality({w.path : w \in written}) = Len(mite_pages)

\* The subdirectories of the content directories of the site, with their paths.
ContentSubdirs ==
  { [path |-> <<Here, root_dir[i].d_name, root_dir[i].list[k].d_name>>,
     list |-> root_dir[i].list[k].list] :
      <<i, k>> \in { <<i, k>> \in (1..MaxRoot + 1) \X (1..3) :
             /\ i <= Len(root_dir) /\ root_dir[i].d_type = "DT_DIR"
             /\ ~IsDot(root_dir[i].d_name) /\ dir_type_of(root_dir[i].d_name) = 1
             /\ k <= Len(root_dir[i].list)
             /\ root_dir[i].list[k].d_type = "DT_DIR"
             /\ ~IsDot(root_dir[i].list[k].d_name) } }

PagesOf(path) ==
  {i \in 1..Len(mite_pages) :
     SubSeq(mite_pages[i].md_path, 1, Len(mite_pages[i].md_path) - 1) = path}

MarkdownsOf(list) ==
  {k \in 1..Len(list) : list[k].d_type = "DT_REG" /\ is_md_file(list[k].d_name)}

\* C18: once the search is over, a subdirectory of a content directory has
\* registered no page when it holds no markdown file, and otherwise exactly
\* one, the first markdown file of its listing.
C18_FirstMarkdownOnly ==
  disc_pc # "search" =>
    \A sd \in ContentSubdirs :
      IF MarkdownsOf(sd.list) = {} THEN PagesOf(sd.path) = {}
      ELSE \E i \in 1..Len(mite_pages) :
             /\ PagesOf(sd.path) = {i}
             /\ mite_pages[i].md_path =
                  join_path(sd.path, sd.list[Min(MarkdownsOf(sd.list))].d_name)

(***************************************************************************)
(* The generator: mite_generate as main calls it once search_files has     *)
(* returned, to the exit of the process.                                   *)
(***************************************************************************)
\* The exit codes the compile-and-run command is given here.
CmdCodes == {0, 1, 2, 255}

\* system(line): on POSIX the wait status of the shell, the exit code in the
\* bits 8 to 15; under _WIN32 the exit code itself.
execute_line(posix, code) == IF posix THEN code * 256 ELSE code

\* The status a parent sees when main returns v: its low eight bits.
ExitStatusOf(v) == v % 256

Generators ==
  [arg_first_stage : BOOLEAN, arg_keep : BOOLEAN, arg_serve : BOOLEAN,
   arg_watch : BOOLEAN, arg_incremental : BOOLEAN, arg_no_watcher : BOOLEAN,
   pages_count : 0..MaxPages]

\* Modification times, in seconds; 0 is also what get_modification_time
\* returns for a file that does not exist.
MaxTime == 1
Times   == 0..MaxTime
MaxTemplates == 2

\* The times of a site: of each template file, and of each page's markdown
\* file (md) and final_html_path (html).
SiteTimes(n) ==
  [templates : SeqsUpTo(Times, MaxTemplates), pages : [1..n -> [md : Times, html : Times]]]

\* Two sites of n pages: one where every output is as new as its sources,
\* one where no output exists yet.
FreshOrStale(n) ==
  { [templates |-> <<1>>, pages |-> [i \in 1..n |-> [md |-> 1, html |-> 1]]],
    [templates |-> <<1>>, pages |-> [i \in 1..n |-> [md |-> 1, html |-> 0]]] }

\* A check_need_to_render that compares the pages only.
RECURSIVE check_pages_only(_, _, _)
check_pages_only(t, most_recent_template, i) ==
  IF i > Len(t.pages) THEN FALSE
  ELSE IF t.pages[i].md > t.pages[i].html THEN TRUE
  ELSE check_pages_only(t, most_recent_template, i + 1)

\* The first loop of check_need_to_render: the newest template time.
RECURSIVE most_recent(_, _, _)
most_recent(ts, i, newest) ==
  IF i > Len(ts) THEN newest
  ELSE most_recent(ts, i + 1, IF ts[i] > newest THEN ts[i] ELSE newest)

\* The second loop: true at the first page older than its markdown file or
\* than the newest template, false when there is none.
RECURSIVE check_pages(_, _, _)
check_pages(t, most_recent_template, i) ==
  IF i > Len(t.pages) THEN FALSE
  ELSE IF t.pages[i].md > t.pages[i].html THEN TRUE
  ELSE IF most_recent_template > t.pages[i].html THEN TRUE
  ELSE check_pages(t, most_recent_template, i + 1)

check_need_to_render(t) == check_pages(t, most_recent(t.templates, 1, 0), 1)

\* index_md: the top-level page file exists; top_template: so does the
\* template named after it; times: the modification times of the site;
\* readable: the registered files can be read; code: the exit code of the
\* compile-and-run command; mite_binary: get_mite_binary_path() finds one.
Environments(n) ==
  [index_md : BOOLEAN, top_template : BOOLEAN, times : FreshOrStale(n),
   readable : BOOLEAN, code : CmdCodes, posix : BOOLEAN, mite_binary : BOOLEAN]

\* Runs told apart by --incremental and --watch only, over every
\* combination of times.
TimedGenerators ==
  [arg_first_stage : {FALSE}, arg_keep : {FALSE}, arg_serve : {FALSE},
   arg_watch : BOOLEAN, arg_incremental : BOOLEAN, arg_no_watcher : {FALSE},
   pages_count : 0..MaxPages]

TimedEnvironments(n) ==
  [index_md : {n >= 1}, top_template : {TRUE}, times : SiteTimes(n),
   readable : {TRUE}, code : {0}, posix : {TRUE}, mite_binary : {TRUE}]

NothingDone ==
  [rendered |-> FALSE, site_c |-> FALSE, toolchain |-> FALSE, cleaned |-> FALSE,
   watcher |-> FALSE, served |-> FALSE]

InitGen ==
  /\ \/ /\ gen_m \in Generators
        /\ gen_env \in Environments(gen_m.pages_count)
        /\ gen_env.index_md => gen_m.pages_count >= 1
     \/ /\ gen_m \in TimedGenerators
        /\ gen_env \in TimedEnvironments(gen_m.pages_count)
  /\ gen_result = 0 /\ gen_fx = NothingDone /\ gen_log = <<>>
  /\ exit_status = -1 /\ gen_pc = "start"

\* while(m->arg_watch) watch(): execl puts "mite --incremental" in the place
\* of this process.
GenWatchExec ==
  /\ gen_pc = "start" /\ gen_m.arg_watch /\ gen_env.mite_binary
  /\ gen_pc' = "replaced"
  /\ UNCHANGED <<gen_m, gen_env, gen_result, gen_fx, gen_log, exit_status, notGen>>

\* execl of no binary fails; sleep(1), and the loop goes round for ever, no
\* iteration changing what the next one finds.
GenWatchSleep ==
  /\ gen_pc = "start" /\ gen_m.arg_watch /\ ~gen_env.mite_binary
  /\ gen_pc' = "sleep"
  /\ UNCHANGED <<gen_m, gen_env, gen_result, gen_fx, gen_log, exit_status, notGen>>

\* if (m->pages.count == 0) { printf("[done] nothing to do\n"); return 0; }
GenNothingToDo ==
  /\ gen_pc = "start" /\ ~gen_m.arg_watch /\ gen_m.pages_count = 0
  /\ gen_log' = Append(gen_log, "[done] nothing to do")
  /\ gen_result' = 0
  /\ gen_pc' = "return"
  /\ UNCHANGED <<gen_m, gen_env, gen_fx, exit_status, notGen>>

\* need_to_render = m->arg_incremental ? check_need_to_render(...) : true
need_to_render ==
  IF gen_m.arg_incremental THEN check_need_to_render(gen_env.times) ELSE TRUE

Begun == gen_pc = "start" /\ ~gen_m.arg_watch /\ gen_m.pages_count # 0

\* Nothing is newer than its page: result stays 0.
GenUpToDate ==
  /\ Begun /\ ~need_to_render
  /\ gen_result' = 0
  /\ gen_pc' = "serve"
  /\ UNCHANGED <<gen_m, gen_env, gen_fx, gen_log, exit_status, notGen>>

\* render_all meets a file it cannot read: it reports and calls exit(1).
GenRenderFails ==
  /\ Begun /\ need_to_render /\ ~gen_env.readable
  /\ gen_log' = Append(gen_log, "failed to render")
  /\ exit_status' = 1
  /\ gen_pc' = "exited"
  /\ UNCHANGED <<gen_m, gen_env, gen_result, gen_fx, notGen>>

\* render_all, second_stage_codegen, write_to_file("site.c"), and the return
\* of --first-stage.
GenRender ==
  /\ Begun /\ need_to_render /\ gen_env.readable
  /\ gen_fx' = [gen_fx EXCEPT !.rendered = TRUE, !.site_c = TRUE]
  /\ gen_log' = Append(gen_log, "[generated] site")
  /\ gen_result' = 0
  /\ gen_pc' = IF gen_m.arg_first_stage THEN "return" ELSE "build"
  /\ UNCHANGED <<gen_m, gen_env, exit_status, notGen>>

\* result = build_and_run_site();
\* if (result == 0 && !m->arg_keep) cleanup_site();
GenBuild ==
  /\ gen_pc = "build"
  /\ LET r == execute_line(gen_env.posix, gen_env.code)
     IN  /\ gen_result' = r
         /\ gen_fx' = [gen_fx EXCEPT !.toolchain = TRUE,
                                     !.cleaned = (r = 0 /\ ~gen_m.arg_keep)]
         /\ gen_log' = Append(gen_log, IF r = 0 THEN "[done]" ELSE "[failed]")
  /\ gen_pc' = "serve"
  /\ UNCHANGED <<gen_m, gen_env, exit_status, notGen>>

Serving == gen_pc = "serve" /\ gen_result = 0 /\ gen_m.arg_serve

\* On POSIX, no mite binary: "[error] mite binary not found.", return 1.
GenServeNoBinary ==
  /\ Serving /\ gen_env.posix /\ ~gen_env.mite_binary
  /\ gen_log' = gen_log \o <<"[serving]", "[error] mite binary not found.">>
  /\ gen_result' = 1
  /\ gen_pc' = "return"
  /\ UNCHANGED <<gen_m, gen_env, gen_fx, exit_status, notGen>>

\* The watcher unless --no-watcher, the file server until it ends.
GenServe ==
  /\ Serving /\ (gen_env.posix => gen_env.mite_binary)
  /\ gen_fx' = [gen_fx EXCEPT !.served = TRUE, !.watcher = ~gen_m.arg_no_watcher]
  /\ gen_log' = gen_log \o <<"[serving]", "[done]">>
  /\ gen_pc' = "return"
  /\ UNCHANGED <<gen_m, gen_env, gen_result, exit_status, notGen>>

GenNoServe ==
  /\ gen_pc = "serve" /\ ~(gen_result = 0 /\ gen_m.arg_serve)
  /\ gen_pc' = "return"
  /\ UNCHANGED <<gen_m, gen_env, gen_result, gen_fx, gen_log, exit_status, notGen>>

\* int result = mite_generate(&m); free_mite_generator(&m); return result;
MainReturn ==
  /\ gen_pc = "return"
  /\ exit_status' = ExitStatusOf(gen_result)
  /\ gen_pc' = "exited"
  /\ UNCHANGED <<gen_m, gen_env, gen_result, gen_fx, gen_log, notGen>>

NextGen ==
  \/ GenWatchExec \/ GenWatchSleep
  \/ GenNothingToDo \/ GenUpToDate \/ GenRenderFails \/ GenRender \/ GenBuild
  \/ GenServeNoBinary \/ GenServe \/ GenNoServe
  \/ MainReturn

InitGenSpec ==
  InitGen /\ InitDiscIdle /\ InitPipeIdle /\ InitTrimIdle /\ InitMdIdle
    /\ InitSiteIdle /\ InitMapIdle /\ InitTrIdle /\ InitEncIdle /\ InitInlIdle

SpecGen == InitGenSpec /\ [][NextGen]_vars

\* C19: when the top-level page file or its template is absent, the
\* generator renders nothing, writes no generated source, invokes no
\* toolchain, and exits with a nonzero status after a report.
C19_MissingInputFatal ==
  (gen_pc # "idle" /\ (~gen_env.index_md \/ ~gen_env.top_template)) =>
    /\ ~gen_fx.rendered /\ ~gen_fx.site_c /\ ~gen_fx.toolchain
    /\ gen_pc = "exited" => exit_status # 0 /\ gen_log # <<>>

\* The newest template time, 0 when there is no template.
Newest(ts) == IF ts = <<>> THEN 0 ELSE Max({ts[i] : i \in 1..Len(ts)})

\* Some page's markdown file is newer than its output, or the newest
\* template is newer than some page's output.
Stale(t) ==
  \/ \E i \in 1..Len(t.pages) : t.pages[i].md > t.pages[i].html
  \/ \E i \in 1..Len(t.pages) : Newest(t.templates) > t.pages[i].html

Regenerates == IF gen_m.arg_incremental THEN Stale(gen_env.times) ELSE TRUE

Regenerated == gen_fx.rendered /\ gen_fx.site_c

\* The run is over: the process has exited, or --watch has replaced it or
\* keeps it in its loop.
GenOver == gen_pc \in {"exited", "replaced", "sleep"}

\* C21 as stated: a run over a site of at least one page whose files can be
\* read renders nothing, writes no site.c and invokes no toolchain when it
\* is incremental and nothing is stale, and has rendered everything and
\* written site.c by its end otherwise.
C21_RegeneratesExactlyWhenStale ==
  (gen_pc # "idle" /\ gen_m.pages_count >= 1 /\ gen_env.readable) =>
    /\ ~Regenerates => ~gen_fx.rendered /\ ~gen_fx.site_c /\ ~gen_fx.toolchain
    /\ (GenOver /\ Regenerates) => Regenerated

\* C21, for the runs without --watch: the same, and from the decision on
\* everything is rendered and site.c written exactly when the run is not
\* incremental or something is stale.
C21_RegeneratesExactlyWhenStaleNoWatch ==
  (gen_pc # "idle" /\ gen_m.pages_count >= 1 /\ gen_env.readable) =>
    /\ ~Regenerates => ~gen_fx.rendered /\ ~gen_fx.site_c /\ ~gen_fx.toolchain
    /\ gen_m.arg_watch => ~gen_fx.rendered /\ ~gen_fx.site_c /\ ~gen_fx.toolchain
    /\ (~gen_m.arg_watch /\ gen_pc # "start") =>
         /\ gen_fx.rendered <=> Regenerates
         /\ gen_fx.site_c <=> Regenerates

\* C21: an incremental run over two pages, each as new as its markdown
\* file, the second older than the newest of two templates, has rendered.
C21_Witness ==
  /\ gen_pc = "exited" /\ gen_m.arg_incremental /\ ~gen_m.arg_watch
  /\ gen_m.pages_count = 2 /\ Len(gen_env.times.templates) = 2
  /\ \A i \in 1..2 : gen_env.times.pages[i].md <= gen_env.times.pages[i].html
  /\ gen_env.times.templates[1] <= gen_env.times.pages[2].html
  /\ gen_env.times.templates[2] > gen_env.times.pages[2].html
  /\ Regenerated

\* The compile-and-run step has been taken and its exit code is in 1..255.
StepFailed ==
  gen_pc \in {"serve", "return", "exited"} /\ gen_fx.toolchain
    /\ gen_env.code \in 1..255

\* C20: when the compile-and-run step fails with an exit code in 1..255 the
\* process exits with the returned wait status modulo 256, which is not
\* zero, the site is not served, and site.c and the binary stay whatever
\* --keep says; they are removed only after a success without --keep.
C20_ToolchainFailureSurfaces ==
  /\ StepFailed =>
       /\ ~gen_fx.served /\ ~gen_fx.cleaned
       /\ gen_pc = "exited" =>
            /\ exit_status = ExitStatusOf(gen_result)
            /\ exit_status # 0
  /\ (gen_pc # "idle" /\ gen_fx.cleaned) =>
       (gen_fx.toolchain /\ gen_env.code = 0 /\ ~gen_m.arg_keep)

\* C22: every iteration of the loop of render_html_to_c leaves fewer bytes
\* in source than it found, so that the loop ends on every buffer.
C22_EveryIterationConsumes ==
  [][(TrHtml \/ TrCode) => source'.count < source.count]_vars

\* C23: the cursor of render_md_to_html stays between the first byte of the
\* document and its terminator, no copy is asked for a negative number of
\* bytes, and no copied span holds the terminator: the only zero of the body
\* is the one appended at the return.
C23_CursorAndSpansInDocument ==
  mpc # "idle" =>
    /\ cursor \in 1..Len(md)
    /\ mpc # "fault"
    /\ \A k \in 1..Len(md_out) :
         md_out[k] = EOS => mpc = "done" /\ k = Len(md_out)
    /\ \A k \in 1..Len(md_out_fm) :
         md_out_fm[k] = EOS => mpc = "done" /\ k = Len(md_out_fm)

\* C24: in every state of the block renderer at most one of in_paragraph and
\* in_list is set, the paragraph openings written so far exceed the closings
\* by one exactly while in_paragraph is set and the list openings exceed the
\* closings by one exactly while in_list is set; when rendering has finished
\* both flags are clear, so the openings and the closings are equal in number.
Opened(open, close) == CountOf(md_out, open) - CountOf(md_out, close)

C24_FlagsBalanced ==
  mpc # "idle" =>
    /\ ~(in_paragraph /\ in_list)
    /\ Opened("\n<p>\n", "</p>\n") = IF in_paragraph THEN 1 ELSE 0
    /\ Opened("<ul>\n", "</ul>\n") = IF in_list THEN 1 ELSE 0
    /\ mpc = "done" => ~in_paragraph /\ ~in_list

\* A finished document that held a list and then a paragraph, the paragraph
\* still open when the input ended.
C24_Witness ==
  /\ mpc = "done"
  /\ CountOf(md_out, "<ul>\n") = 1 /\ CountOf(md_out, "</ul>\n") = 1
  /\ CountOf(md_out, "\n<p>\n") = 1 /\ CountOf(md_out, "</p>\n") = 1
  /\ Len(md_out) >= 2 /\ md_out[Len(md_out) - 1] = "</p>\n"

(***************************************************************************)
(* Properties of the generated program                                     *)
(***************************************************************************)

\* What a routine appends when run from instruction k with callback cb, and
\* whether it runs to its end (ok) or ends the program on the way.
RECURSIVE Eval(_, _, _)
Eval(code, k, cb) ==
  IF k > Len(code) THEN [out |-> <<>>, ok |-> TRUE]
  ELSE LET i == code[k]
           r == find_template(templates, i.arg)
           first ==
             CASE i.op = "OUT_HTML" -> [out |-> <<i.arg>>, ok |-> TRUE]
               [] i.op = "CONTENT" ->
                    IF cb = 0 THEN [out |-> <<>>, ok |-> FALSE]
                    ELSE Eval(pages[cb].code, 1, 0)
               [] i.op = "INCLUDE" ->
                    IF r.exit THEN [out |-> <<>>, ok |-> FALSE]
                    ELSE IF r.st # 0 /\ templates[r.st].is_include
                         THEN Eval(templates[r.st].code, 1, cb)
                         ELSE [out |-> <<>>, ok |-> TRUE]
       IN  IF ~first.ok THEN first
           ELSE LET rest == Eval(code, k + 1, cb)
                IN  [out |-> first.out \o rest.out, ok |-> rest.ok]

Registered(name) == \E t \in 1..Len(templates) : templates[t].name = name

\* C1: a page whose layout name (the default or one set by front matter)
\* matches no registered template is rendered by its own content routine
\* alone: the lookup does not abort the run, the page's routine is the one
\* the driver calls, and the file written holds what that routine produces.
C1_LayoutFallback ==
  \A i \in 1..Len(pages) :
    (pages[i].layout # NULL /\ ~Registered(pages[i].layout)) =>
      /\ ~(status = "exit1" /\ pc = "find" /\ pi = i)
      /\ (pc = "render" /\ pi = i /\ stack # <<>>
            => stack[1].kind = "page" /\ stack[1].idx = i)
      /\ (files[i] # NotWritten => files[i] = Eval(pages[i].code, 1, 0).out)

\* C2: once INCLUDE(name) has looked up a name no registered template has
\* (the miss is reported while a rendering routine is running), the program
\* has ended with exit status 1, nothing more can run, and no file exists
\* for the page being rendered or for any later page.
C2_IncludeMissFatal ==
  (err # <<>> /\ stack # <<>>) =>
    /\ status = "exit1"
    /\ ~ENABLED NextSite
    /\ \A j \in pi..Len(pages) : files[j] = NotWritten

\* C2 witness: the second page's rendering ended in a failed INCLUDE after
\* the first page was written.
C2_Witness ==
  /\ status = "exit1" /\ stack # <<>> /\ err # <<>>
  /\ pi = 2 /\ files[1] # NotWritten /\ files[2] = NotWritten
  /\ Top.ip <= Len(CodeOf(Top)) /\ CodeOf(Top)[Top.ip].op = "INCLUDE"
  /\ ~Registered(CodeOf(Top)[Top.ip].arg)

\* C3: the routine the driver calls as a page's layout is never an include
\* template, and every template routine started by INCLUDE is one.
C3_LayoutsAndIncludesDisjoint ==
  /\ (stack # <<>> /\ stack[1].kind = "template"
        => ~templates[stack[1].idx].is_include)
  /\ \A k \in 2..Len(stack) :
        stack[k].kind = "template" => templates[stack[k].idx].is_include

\* What rendering page i alone appends to an empty buffer: its layout's
\* routine with the page as content, or the page's own routine.
Rendering(i) ==
  LET r == find_template(templates, pages[i].layout)
  IN  IF r.st # 0 THEN Eval(templates[r.st].code, 1, i)
      ELSE Eval(pages[i].code, 1, 0)

\* C16: pages are written in discovery order, the buffer is empty when a
\* page starts, and the file of every page holds exactly what rendering
\* that page appended, with nothing rendered for an earlier page.
C16_OneBufferPerPage ==
  /\ pc = "find" => out = <<>>
  /\ \A i \in 1..Len(files) :
       files[i] # NotWritten =>
         /\ i < pi
         /\ \A j \in 1..i : files[j] # NotWritten
         /\ files[i] = Rendering(i).out

\* C16: a run that wrote two pages, each with output of its own.
C16_Witness ==
  /\ status = "exit0" /\ Len(files) = 2
  /\ files[1] # NotWritten /\ files[1] # <<>>
  /\ files[2] # NotWritten /\ files[2] # <<>>
  /\ files[1] # files[2]

=============================================================================
